---- MODULE Spec2Model ----
(***************************************************************************)
(* Request-assembly / response-reassembly pipeline of the Nixtla client:   *)
(* _partition_series, _retry_strategy, NixtlaClient._make_request,         *)
(* _make_request_with_retries and _make_partitioned_requests               *)
(* (src/nixtla/nixtla_client.py).                                          *)
(*                                                                         *)
(* Arrays are sequences.  Python positions are 0-based: an index value i   *)
(* held in the model (an element of `idxs`) is the Python index, and the   *)
(* element it selects in a sequence s is s[i + 1].                         *)
(***************************************************************************)
EXTENDS Integers, Sequences, FiniteSets, TLC

(* ------------------------------ bounds -------------------------------- *)
\* largest number of series in a payload (and of requested partitions)
MaxSeries == 3
\* largest max_retries the client is constructed with
MaxRetries == 3
\* largest retry_interval the client is constructed with
MaxInterval == 2
\* largest max_wait_time the client is constructed with
MaxWait == 3
\* longest duration of one HTTP attempt, in clock ticks
MaxDuration == 1

\* lengths a series may have, horizons a call may ask for
SeriesSizes == {1, 2}
Horizons == {1, 2}

(* ------------------------- program constants -------------------------- *)
\* max_workers = min(10, num_partitions)
POOL_WORKERS == 10
\* if resp.status_code != 200: raise ApiError
HTTP_OK == 200

(* ------------------------------ helpers ------------------------------- *)
Min(a, b) == IF a < b THEN a ELSE b

\* Python's s[a:b] for 0 <= a, 0 <= b: the end is clamped to len(s)
PySlice(s, a, b) == SubSeq(s, a + 1, Min(b, Len(s)))

RECURSIVE SumSeq(_)
\* Python's sum(s) / np.sum
SumSeq(s) == IF s = <<>> THEN 0 ELSE Head(s) + SumSeq(Tail(s))

RECURSIVE Flatten(_)
\* np.hstack of a list of 1-d arrays
Flatten(ss) == IF ss = <<>> THEN <<>> ELSE Head(ss) \o Flatten(Tail(ss))

\* math.ceil(a / b) for positive integers
CeilDiv(a, b) == (a + b - 1) \div b

\* an Optional value: None, or a value
None == [present |-> FALSE, v |-> <<>>]
Some(x) == [present |-> TRUE, v |-> x]

(* ------------------------------ payloads ------------------------------ *)
(* A payload's `series` is [y, sizes, X, X_future]: y the flat target      *)
(* buffer, sizes = diff(indptr), X an Optional list of feature rows of     *)
(* len(y) entries each, X_future an Optional list of rows of h entries per *)
(* series.  A payload without the "X_future" key (every call but forecast) *)
(* is held with X_future = None; the key is only read when h > 0.          *)
(* Every buffer entry is tagged with its own position, so that any two     *)
(* slices of a buffer differ and a misplaced slice is visible.             *)

\* which feature rows a call sends:
\*   "none": no exogenous column              (X = None,   X_future = None)
\*   "hist": historical-only features         (X = 1 row,  X_future = None)
\*   "futr": future features only             (X = 1 row,  X_future = 1 row)
\*   "both": one future + one historical      (X = 2 rows, X_future = 1 row)
ExogKinds == {"none", "hist", "futr", "both"}

Endpoints == {"v2/forecast", "v2/cross_validation"}

\* row r of a feature matrix with n columns
FeatureRow(r, n) == [j \in 1..n |-> 100 * r + j]

\* payload["series"] as forecast / cross_validation build it
MakeSeries(sizes, exog, endpoint, h) ==
    LET total == SumSeq(sizes)
        nX == CASE exog = "none" -> 0 [] exog = "both" -> 2 [] OTHER -> 1
        hasXf == endpoint = "v2/forecast" /\ exog \in {"futr", "both"}
    IN [y |-> [j \in 1..total |-> j],
        sizes |-> sizes,
        X |-> IF nX = 0 THEN None
              ELSE Some([r \in 1..nX |-> FeatureRow(r, total)]),
        X_future |-> IF hasXf
                     THEN Some(<<FeatureRow(9, Len(sizes) * h)>>)
                     ELSE None]

\* the h handed to _partition_series: h for forecast, h=0 for every other call
PartitionH(endpoint, h) == IF endpoint = "v2/forecast" THEN h ELSE 0

(* -------------------------- _partition_series ------------------------- *)
\* one turn of the loop `for i in range(0, n_series, series_per_part)`
PartSeries(series, i, series_per_part, prev_size, h) ==
    LET sizes == PySlice(series.sizes, i, i + series_per_part)
        curr_size == SumSeq(sizes)
        lo == prev_size
        hi == prev_size + curr_size
    IN [y |-> PySlice(series.y, lo, hi),
        sizes |-> sizes,
        X |-> IF ~series.X.present THEN None
              ELSE Some([r \in 1..Len(series.X.v) |->
                            PySlice(series.X.v[r], lo, hi)]),
        X_future |-> IF ~series.X.present \/ h = 0 THEN None
                     ELSE Some([r \in 1..Len(series.X_future.v) |->
                                   PySlice(series.X_future.v[r], i * h,
                                           (i + series_per_part) * h)])]

\* `for x in series["X_future"]` with X_future = None: TypeError
PartRaises(series, h) ==
    series.X.present /\ h > 0 /\ ~series.X_future.present

RECURSIVE PartLoop(_, _, _, _, _)
PartLoop(series, i, series_per_part, prev_size, h) ==
    IF i >= Len(series.sizes) THEN <<>>
    ELSE LET part == PartSeries(series, i, series_per_part, prev_size, h)
         IN <<part>> \o PartLoop(series, i + series_per_part, series_per_part,
                                 prev_size + SumSeq(part.sizes), h)

\* _partition_series(payload, n_part, h): the list of sub-payloads' series,
\* or the exception the loop body raises
_partition_series(series, n_part, h) ==
    LET n_series == Len(series.sizes)
        np == Min(n_part, n_series)
        series_per_part == CeilDiv(n_series, np)
    IN IF PartRaises(series, h)
       THEN [raised |-> TRUE, parts |-> <<>>]
       ELSE [raised |-> FALSE,
             parts |-> PartLoop(series, 0, series_per_part, 0, h)]

(* ---------------------------- remote engine --------------------------- *)
(* A deterministic stub of the service: each series' output is computed    *)
(* from that series' own rows and future rows alone.                       *)

\* 0-based position of the first row of series i (1-based i) in the buffer
SeriesStart(sizes, i) == SumSeq(SubSeq(sizes, 1, i - 1))

\* forecast: h values per series, from its last target, last feature values
\* and its own block of future rows
ForecastMean(series, h) ==
    LET n == Len(series.sizes)
        lastPos(i) == SeriesStart(series.sizes, i) + series.sizes[i]
        one(i, k) ==
            <<series.y[lastPos(i)],
              IF series.X.present
              THEN [r \in 1..Len(series.X.v) |-> series.X.v[r][lastPos(i)]]
              ELSE <<>>,
              IF series.X_future.present
              THEN [r \in 1..Len(series.X_future.v) |->
                       series.X_future.v[r][(i - 1) * h + k]]
              ELSE <<>> >>
    IN Flatten([i \in 1..n |-> [k \in 1..h |-> one(i, k)]])

\* cross validation (one window): the last min(size, h) rows of each series
CvSizes(series, h) == [i \in 1..Len(series.sizes) |-> Min(series.sizes[i], h)]

CvIdxs(series, h) ==
    LET out == CvSizes(series, h)
        end(i) == SeriesStart(series.sizes, i) + series.sizes[i]
    IN Flatten([i \in 1..Len(series.sizes) |->
                   [k \in 1..out[i] |-> end(i) - out[i] + k - 1]])

CvMean(series, h) ==
    LET idxs == CvIdxs(series, h)
    IN [j \in 1..Len(idxs) |->
           <<series.y[idxs[j] + 1],
             IF series.X.present
             THEN [r \in 1..Len(series.X.v) |-> series.X.v[r][idxs[j] + 1]]
             ELSE <<>>, <<>> >>]

\* a response body: the fields a response may carry, None for a field that
\* is absent (or null)
Response(mean, sizes, idxs, intervals) ==
    [mean |-> mean, sizes |-> sizes, idxs |-> idxs, intervals |-> intervals,
     anomaly |-> None, anomaly_score |-> None,
     accumulated_anomaly_score |-> None, weights_x |-> None]

\* the body of a 200 response to `series` on `endpoint`
Engine(series, endpoint, h) ==
    IF endpoint = "v2/forecast"
    THEN Response(ForecastMean(series, h), None, None, None)
    ELSE Response(CvMean(series, h), Some(CvSizes(series, h)),
                  Some(CvIdxs(series, h)), None)

NoResponse == Response(<<>>, None, None, None)

(* --------------------------- _retry_strategy -------------------------- *)
(* An exception is [type, status_code, body]; status_code and body are     *)
(* those of an ApiError and are 0 and "" for every other type.             *)
Exc(type, status_code, body) ==
    [type |-> type, status_code |-> status_code, body |-> body]

NoExc == Exc("", 0, "")

\* should_retry.retriable_exceptions
retriable_exceptions ==
    {"ConnectionResetError", "httpcore.ConnectError",
     "httpcore.RemoteProtocolError", "httpx.ConnectTimeout", "httpx.ReadError",
     "httpx.RemoteProtocolError", "httpx.ReadTimeout", "httpx.PoolTimeout",
     "httpx.WriteError", "httpx.WriteTimeout"}

\* should_retry.retriable_codes
retriable_codes == {408, 409, 429, 502, 503, 504}

\* a faulty variant of should_retry: every ApiError is retried, whatever its status
should_retry_any_api_error(exc) ==
    exc.type \in retriable_exceptions \/ exc.type = "ApiError"

\* a faulty variant of should_retry: every exception is retried
should_retry_always(exc) == TRUE

should_retry(exc) ==
    exc.type \in retriable_exceptions
        \/ (exc.type = "ApiError" /\ exc.status_code \in retriable_codes)

\* a faulty variant of stop: only the attempt count stops the retries
stop_attempts_only(c, attempt_number, seconds_since_start) ==
    attempt_number >= c.max_retries

\* a faulty variant of stop: one attempt fewer than max_retries
stop_one_early(c, attempt_number, seconds_since_start) ==
    attempt_number + 1 >= c.max_retries
        \/ seconds_since_start >= c.max_wait_time

\* a faulty variant of stop: only the elapsed time stops the retries
stop_delay_only(c, attempt_number, seconds_since_start) ==
    seconds_since_start >= c.max_wait_time

\* stop=stop_after_attempt(max_retries) | stop_after_delay(max_wait_time),
\* evaluated when an attempt has failed: seconds_since_start is the time
\* from the start of the first attempt to the failure of this one
stop(c, attempt_number, seconds_since_start) ==
    attempt_number >= c.max_retries
        \/ seconds_since_start >= c.max_wait_time

\* wait=wait_fixed(retry_interval)
wait(c) == c.retry_interval

\* a faulty variant of reraise: the last exception wrapped in tenacity's RetryError
reraise_wrapped(exc) == Exc("tenacity.RetryError", 0, "")

\* reraise=True: when the retries stop, the last attempt's own exception
reraise(exc) == exc

(* ---------------------- NixtlaClient._make_request -------------------- *)
(* What the HTTP transport does with one attempt: client.post raises       *)
(* `raises` (a type name, "" for none), or returns a response with         *)
(* `status_code` whose content is valid JSON or not (`json`).              *)
Transport(raises, status_code, json) ==
    [raises |-> raises, status_code |-> status_code, json |-> json]

\* exception types client.post can raise; httpx.ConnectError and
\* httpx.UnsupportedProtocol are not in retriable_exceptions
TransportErrors ==
    retriable_exceptions \cup {"httpx.ConnectError", "httpx.UnsupportedProtocol"}

StatusCodes == {HTTP_OK, 400, 401, 500} \cup retriable_codes

AllTransports ==
    {Transport(e, 0, TRUE) : e \in TransportErrors}
        \cup {Transport("", c, j) : c \in StatusCodes, j \in BOOLEAN}

\* the ceiling on the serialized payload, in MiB
MAX_CONTENT_MB == 200

\* 2**20
MiB == 2 ^ 20

\* len(orjson.dumps(payload)): a payload serializes to bytes_per_row bytes
\* for each of its rows
content_len(payload, bytes_per_row) == bytes_per_row * Len(payload.y)

\* a faulty variant of too_large: no payload is refused
too_large_never(len) == FALSE

\* content_size_mb = len(content) / 2**20; content_size_mb > 200
\* (the division by a power of two is exact, so this is len > 200 * 2**20)
too_large(len) == len > MAX_CONTENT_MB * MiB

\* one call of _make_request on a payload that serializes to `len` bytes and
\* meets transport behaviour t: the exception it raises (NoExc: it returns
\* the response body) and the number of client.post calls it made
_make_request(len, t) ==
    IF too_large(len)
    THEN [exc |-> Exc("ValueError", 0, "The payload is too large"), posts |-> 0]
    ELSE [exc |-> IF t.raises # "" THEN Exc(t.raises, 0, "")
                  ELSE IF ~t.json
                  THEN Exc("ApiError", t.status_code, "Could not parse JSON")
                  ELSE IF t.status_code # HTTP_OK
                  THEN Exc("ApiError", t.status_code, "body")
                  ELSE NoExc,
          posts |-> 1]

(* ------------------------------- state -------------------------------- *)
VARIABLES
    cfg,        \* the client's retry settings: max_retries, retry_interval, max_wait_time
    call,       \* the top-level call: endpoint, h, exog, num_partitions (0: None)
    series,     \* payload["series"] of the call
    pc,         \* where the calling thread is
    parts,      \* the payloads sent: the sub-payloads, or the whole payload
    req,        \* one _make_request_with_retries per payload
    collected,  \* positions whose future the as_completed loop has consumed
    results,    \* _make_partitioned_requests.results
    resp,       \* the response handed to output reconstruction
    error,      \* the exception raised to the caller
    out,        \* the table returned to the caller
    args,       \* the arguments of the top-level call (forecast, finetune, ...)
    loc,        \* the local variables of the top-level call
    sent,       \* the network requests issued so far, in order
    model_params,   \* NixtlaClient._model_params: (model, freq) -> (input_size, horizon)
    attrs       \* the attributes the calls set on the client: weights_x, feature_contributions

\* self._model_params = {}
EmptyCache == [key \in {} |-> <<0, 0>>]

\* the state of a top-level call before its payload exists
frontend == <<args, loc, sent, model_params, attrs>>

\* a client on which no call has set an attribute
NoAttrs == [weights_x |-> None, feature_contributions |-> None]

vars == <<cfg, call, series, pc, parts, req, collected, results, resp, error, out,
          frontend>>

\* a record of the logger: f"Attempt {attempt_number} failed with error: {error}"
LogRecord(attempt_number, exc) == [attempt_number |-> attempt_number, error |-> exc]

NoLog == LogRecord(0, NoExc)

\* a request that has not completed
Unfinished == {"queued", "running"}

\* _make_request_with_retries at its first attempt, or waiting for a worker
NewRequest(status) ==
    [status |-> status, attempt |-> IF status = "running" THEN 1 ELSE 0,
     started |-> 0, failedAt |-> 0, exc |-> NoExc, raised |-> NoExc,
     posts |-> 0, logged |-> 0, last_log |-> NoLog]

\* ThreadPoolExecutor(max_workers): the first max_workers submissions run,
\* the others wait in the queue
max_workers(num_partitions) == Min(POOL_WORKERS, num_partitions)

Submit(n) ==
    [p \in 1..n |-> NewRequest(IF p <= max_workers(n) THEN "running" ELSE "queued")]

\* a worker that has finished a request takes the oldest queued one
TakeNext(reqs) ==
    LET queued == {p \in 1..Len(reqs) : reqs[p].status = "queued"}
    IN IF queued = {} THEN reqs
       ELSE LET p == CHOOSE q \in queued : \A o \in queued : q <= o
            IN [reqs EXCEPT ![p] = NewRequest("running")]

\* a faulty variant of after_retry: nothing is logged
after_retry_silent(r, exc) == r

\* after=after_retry: one logger.error record with the attempt number and the
\* exception of the attempt; logged counts the records of the request and
\* last_log is the latest of them
after_retry(r, exc) ==
    [r EXCEPT !.logged = r.logged + 1, !.last_log = LogRecord(r.attempt, exc)]

\* a faulty variant of AfterAttempt: one attempt counter for the whole client,
\* every request's attempts counting against every request's budget
AfterAttempt_shared_budget(r, d, t, len) ==
    LET made == _make_request(len, t)
        exc == made.exc
        seconds_since_start == r.started + d
        attempts == SumSeq([q \in 1..Len(req) |-> req[q].attempt])
        r1 == [r EXCEPT !.posts = r.posts + made.posts]
        r2 == after_retry(r1, exc)
    IN IF exc = NoExc
       THEN [r1 EXCEPT !.status = "ok"]
       ELSE IF ~should_retry(exc)
       THEN [r1 EXCEPT !.status = "failed", !.failedAt = seconds_since_start,
                       !.exc = exc, !.raised = exc]
       ELSE IF stop(cfg, attempts, seconds_since_start)
       THEN [r2 EXCEPT !.status = "failed", !.failedAt = seconds_since_start,
                       !.exc = exc, !.raised = reraise(exc)]
       ELSE [r2 EXCEPT !.attempt = r.attempt + 1,
                       !.started = seconds_since_start + wait(cfg),
                       !.failedAt = seconds_since_start, !.exc = exc]

\* the retrying call after one attempt on a payload of `len` bytes that took
\* `d` ticks and met transport behaviour `t`; exc and failedAt are those of
\* the last failed attempt, posts counts the client.post calls.  The retry
\* loop hands a failed attempt to the retry predicate first: when it is false
\* the exception leaves the loop at once; when it is true the `after` hook
\* runs, then `stop` decides between re-raising and waiting
AfterAttempt(r, d, t, len) ==
    LET made == _make_request(len, t)
        exc == made.exc
        seconds_since_start == r.started + d
        r1 == [r EXCEPT !.posts = r.posts + made.posts]
        r2 == after_retry(r1, exc)
    IN IF exc = NoExc
       THEN [r1 EXCEPT !.status = "ok"]
       ELSE IF ~should_retry(exc)
       THEN [r1 EXCEPT !.status = "failed", !.failedAt = seconds_since_start,
                       !.exc = exc, !.raised = exc]
       ELSE IF stop(cfg, r.attempt, seconds_since_start)
       THEN [r2 EXCEPT !.status = "failed", !.failedAt = seconds_since_start,
                       !.exc = exc, !.raised = reraise(exc)]
       ELSE [r2 EXCEPT !.attempt = r.attempt + 1,
                       !.started = seconds_since_start + wait(cfg),
                       !.failedAt = seconds_since_start, !.exc = exc]

\* a faulty variant of StoreResult: the slot is the completion rank
StoreResult_by_completion(res, pos, n_done, body) ==
    [res EXCEPT ![n_done + 1] = body]

\* results[pos] = future.result(), pos = future2pos[future]
StoreResult(res, pos, n_done, body) == [res EXCEPT ![pos] = body]

\* np.hstack([res[k] for res in results]) for an Optional field k
HStack(res, field(_)) == Flatten([i \in 1..Len(res) |-> field(res[i]).v])

\* the merge of _make_partitioned_requests, after the pool has exited; a
\* dict of intervals is a sequence of [k, v] entries in key order
MergeResults(res, payloads) ==
    LET n == Len(res)
        first_res == res[1]
        offsets == [i \in 1..n |->
                       IF i = 1 THEN 0 ELSE SumSeq(payloads[i - 1].sizes)]
    IN [mean |-> Flatten([i \in 1..n |-> res[i].mean]),
        sizes |-> IF first_res.sizes.present
                  THEN Some(HStack(res, LAMBDA r : r.sizes))
                  ELSE None,
        idxs |-> IF first_res.idxs.present
                 THEN Some(Flatten([i \in 1..n |->
                          [j \in 1..Len(res[i].idxs.v) |->
                              res[i].idxs.v[j] + offsets[i]]]))
                 ELSE None,
        intervals |-> IF ~first_res.intervals.present THEN None
                      ELSE Some([e \in 1..Len(first_res.intervals.v) |->
                               [k |-> first_res.intervals.v[e].k,
                                v |-> Flatten([i \in 1..n |->
                                         res[i].intervals.v[e].v])]]),
        anomaly |-> IF first_res.anomaly.present
                    THEN Some(HStack(res, LAMBDA r : r.anomaly))
                    ELSE None,
        anomaly_score |-> IF first_res.anomaly_score.present
                          THEN Some(HStack(res, LAMBDA r : r.anomaly_score))
                          ELSE None,
        accumulated_anomaly_score |-> None,
        weights_x |-> IF ~first_res.weights_x.present THEN None
                      ELSE Some([i \in 1..n |-> res[i].weights_x.v])]

\* the rows of the returned table: the engine's value, and for a cross
\* validation the target the index selects (targets[idxs])
OutputRows(response) ==
    [j \in 1..Len(response.mean) |->
        [TimeGPT |-> response.mean[j],
         y |-> IF response.idxs.present
               THEN series.y[response.idxs.v[j] + 1]
               ELSE 0]]

(* ------------------------------ actions ------------------------------- *)
\* a call with num_partitions set: _partition_series, then the submissions
\* of _make_partitioned_requests
StartPartitioned ==
    /\ pc = "start"
    /\ call.num_partitions > 0
    /\ LET ps == _partition_series(series, call.num_partitions,
                                   PartitionH(call.endpoint, call.h))
       IN IF ps.raised
          THEN /\ pc' = "raised"
               /\ error' = Exc("TypeError", 0, "")
               /\ UNCHANGED <<parts, req, results>>
          ELSE /\ pc' = "dispatch"
               /\ parts' = ps.parts
               /\ req' = Submit(Len(ps.parts))
               /\ results' = [p \in 1..Len(ps.parts) |-> NoResponse]
               /\ UNCHANGED error
    /\ UNCHANGED <<frontend, cfg, call, series, collected, resp, out>>

\* a call with num_partitions = None: one request with the whole payload
StartDirect ==
    /\ pc = "start"
    /\ call.num_partitions = 0
    /\ pc' = "direct"
    /\ parts' = <<series>>
    /\ req' = <<NewRequest("running")>>
    /\ UNCHANGED <<frontend, cfg, call, series, collected, results, resp, error, out>>

\* one attempt of request p ends
Attempt(p, transports, durations) ==
    /\ pc \in {"dispatch", "shutdown", "direct"}
    /\ p \in 1..Len(req)
    /\ req[p].status = "running"
    /\ \E t \in transports, d \in durations :
          LET r == AfterAttempt(req[p], d, t,
                                content_len(parts[p], call.bytes_per_row))
              reqs == [req EXCEPT ![p] = r]
          IN req' = IF r.status \in Unfinished THEN reqs ELSE TakeNext(reqs)
    /\ UNCHANGED <<frontend, cfg, call, series, pc, parts, collected, results, resp, error, out>>

\* what a completed request holds for its caller: the body of the 200
\* response its last attempt got
Body(p) ==
    IF req[p].status = "ok" THEN Engine(parts[p], call.endpoint, call.h)
    ELSE NoResponse

\* a faulty variant of result_raises: a failed request's exception is swallowed
result_raises_never(r) == FALSE

\* future.result() raises the exception the request ended with
result_raises(r) == r.status = "failed"

\* the as_completed loop takes a completed future: its result goes to its
\* slot, or its exception leaves the loop
Collect(p) ==
    /\ pc = "dispatch"
    /\ p \in 1..Len(req)
    /\ p \notin collected
    /\ req[p].status \notin Unfinished
    /\ IF ~result_raises(req[p])
       THEN /\ results' = StoreResult(results, p, Cardinality(collected), Body(p))
            /\ collected' = collected \cup {p}
            /\ UNCHANGED <<pc, error>>
       ELSE /\ pc' = "shutdown"
            /\ error' = req[p].raised
            /\ UNCHANGED <<results, collected>>
    /\ UNCHANGED <<frontend, cfg, call, series, parts, req, resp, out>>

\* a faulty variant of PoolExit: the exception reaches the caller at once
PoolExit_no_wait ==
    /\ pc = "shutdown"
    /\ pc' = "raised"
    /\ UNCHANGED <<frontend, cfg, call, series, parts, req, collected, results, resp, error, out>>

\* the `with ThreadPoolExecutor` block exits on an exception: it waits for
\* every submitted request, then the exception reaches the caller
PoolExit ==
    /\ pc = "shutdown"
    /\ \A p \in 1..Len(req) : req[p].status \notin Unfinished
    /\ pc' = "raised"
    /\ UNCHANGED <<frontend, cfg, call, series, parts, req, collected, results, resp, error, out>>

\* every future consumed: the responses are merged
Merge ==
    /\ pc = "dispatch"
    /\ collected = 1..Len(req)
    /\ resp' = MergeResults(results, parts)
    /\ pc' = "got_resp"
    /\ UNCHANGED <<frontend, cfg, call, series, parts, req, collected, results, error, out>>

\* the unpartitioned request returns its body, or raises
ReturnDirect ==
    /\ pc = "direct"
    /\ req[1].status \notin Unfinished
    /\ IF ~result_raises(req[1])
       THEN /\ resp' = Body(1)
            /\ pc' = "got_resp"
            /\ UNCHANGED error
       ELSE /\ error' = req[1].raised
            /\ pc' = "raised"
            /\ UNCHANGED resp
    /\ UNCHANGED <<frontend, cfg, call, series, parts, req, collected, results, out>>

\* output reconstruction
Assemble ==
    /\ pc = "got_resp"
    /\ out' = Some(OutputRows(resp))
    /\ pc' = "returned"
    /\ UNCHANGED <<frontend, cfg, call, series, parts, req, collected, results, resp, error>>

(* --------------------------- specifications --------------------------- *)
\* the calls: forecast may send future features, cross_validation has none;
\* each row of the payload serializes to bytes_per_row bytes
CallsOfSize(partitions, row_sizes) ==
    {c \in [endpoint : Endpoints, h : Horizons, exog : ExogKinds,
            num_partitions : partitions, bytes_per_row : row_sizes] :
        c.endpoint = "v2/forecast" \/ c.exog \in {"none", "hist"}}

\* the calls whose payloads are far below the ceiling
Calls(partitions) == CallsOfSize(partitions, {8})

SizeLists == UNION {[1..n -> SeriesSizes] : n \in 1..MaxSeries}

Configs ==
    [max_retries : 1..MaxRetries, retry_interval : 1..MaxInterval,
     max_wait_time : 1..MaxWait]

InitWith(configs, calls, sizes) ==
    /\ cfg \in configs
    /\ call \in calls
    /\ \E s \in sizes : series = MakeSeries(s, call.exog, call.endpoint, call.h)
    /\ pc = "start"
    /\ parts = <<>>
    /\ req = <<>>
    /\ collected = {}
    /\ results = <<>>
    /\ resp = NoResponse
    /\ error = NoExc
    /\ out = None
    /\ args = <<>>
    /\ loc = <<>>
    /\ sent = <<>>
    /\ model_params = EmptyCache
    /\ attrs = NoAttrs

(* Spec: partitioned calls on every payload, each request meeting a        *)
(* transport that answers 200, 503 or 400, under a client constructed with *)
(* max_retries=1: a request is answered, exhausts its retry budget (503)   *)
(* or fails on a non-retriable error (400).  The retries themselves are    *)
(* those of SpecRetry.                                                     *)
PipelineConfigs ==
    {[max_retries |-> 1, retry_interval |-> 1, max_wait_time |-> 3]}

PipelineTransports ==
    {Transport("", HTTP_OK, TRUE), Transport("", 503, TRUE),
     Transport("", 400, TRUE)}

Init == InitWith(PipelineConfigs, Calls(1..MaxSeries), SizeLists)

Next ==
    \/ StartPartitioned
    \/ \E p \in 1..MaxSeries : Attempt(p, PipelineTransports, {0})
    \/ \E p \in 1..MaxSeries : Collect(p)
    \/ PoolExit
    \/ Merge
    \/ Assemble

Spec == Init /\ [][Next]_vars

(* SpecRetry: one unpartitioned request under every retry setting, meeting *)
(* every transport behaviour, each attempt taking 0..MaxDuration ticks.    *)
RetryCalls ==
    {c \in Calls({0}) : c.endpoint = "v2/forecast" /\ c.exog = "none" /\ c.h = 1}

InitRetry == InitWith(Configs, RetryCalls, {<<2>>})

NextRetry ==
    \/ StartDirect
    \/ Attempt(1, AllTransports, 0..MaxDuration)
    \/ ReturnDirect
    \/ Assemble

SpecRetry == InitRetry /\ [][NextRetry]_vars

(* ========================= the top-level calls ======================== *)
(* forecast, finetune, detect_anomalies, detect_anomalies_online and       *)
(* cross_validation on a pandas table, from the caller's arguments to the  *)
(* returned table.  A table is [cols, rows]: the column names in order and *)
(* the rows in the caller's order; a row is [unique_id, ds, y] with ds an  *)
(* integer time and y an Optional value (None: NaN or None).  The value of *)
(* a feature column c in the row of series u at time t is the tag          *)
(* <<c, u, t>>.  Every table has the columns ds and y; X_df is an Optional *)
(* list of columns, its rows being the h times after each series' end.     *)
(* freq is [type, step]: a string alias or an integer, with its step.      *)
Methods ==
    {"forecast", "finetune", "detect_anomalies", "detect_anomalies_online",
     "cross_validation"}

\* x in seq
Contains(seq, x) == \E i \in 1..Len(seq) : seq[i] = x

\* the elements of a sequence
Range(seq) == {seq[i] : i \in 1..Len(seq)}

SetMin(S) == CHOOSE x \in S : \A y \in S : x <= y
SetMax(S) == CHOOSE x \in S : \A y \in S : x >= y

\* one network request
Request(verb, endpoint) == [verb |-> verb, endpoint |-> endpoint]

\* the endpoint a method posts its payload to
EndpointOf(method) ==
    CASE method = "forecast" -> "v2/forecast"
      [] method = "finetune" -> "v2/finetune"
      [] method = "detect_anomalies" -> "v2/anomaly_detection"
      [] method = "detect_anomalies_online" -> "v2/online_anomaly_detection"
      [] OTHER -> "v2/cross_validation"

(* -------------------- NixtlaClient._run_validations ------------------- *)
\* a faulty variant of is_nan_or_none_any: only the last row is looked at
is_nan_or_none_last(df) == ~df.rows[Len(df.rows)].y.present

\* ufp.is_nan_or_none(df[target_col]).any()
is_nan_or_none_any(df) == \E i \in 1..Len(df.rows) : ~df.rows[i].y.present

\* the ids of a table, and the times of one of its series
Uids(df) == {df.rows[i].unique_id : i \in 1..Len(df.rows)}
TimesOf(df, u) ==
    {df.rows[i].ds : i \in {j \in 1..Len(df.rows) : df.rows[j].unique_id = u}}

\* id_time_grid(df, freq, start="per_serie", end="per_serie"): every series
\* from its first to its last time in steps of freq
id_time_grid(df, freq) ==
    UNION {{<<u, t>> : t \in {x \in SetMin(TimesOf(df, u))..SetMax(TimesOf(df, u)) :
                                 (x - SetMin(TimesOf(df, u))) % freq.step = 0}} :
           u \in Uids(df)}

\* freq_ok = len(df) == len(expected_ids_times)
freq_ok(df, freq) == Len(df.rows) = Cardinality(id_time_grid(df, freq))

\* drop_id = id_col not in df.columns
id_missing(df) == ~Contains(df.cols, "unique_id")

\* ufp.assign_columns(df, id_col, 0): a new last column, or the column overwritten
assign_id(df) ==
    [cols |-> IF Contains(df.cols, "unique_id") THEN df.cols
              ELSE Append(df.cols, "unique_id"),
     rows |-> [i \in 1..Len(df.rows) |-> [df.rows[i] EXCEPT !.unique_id = 0]]]

\* _run_validations after the API key and the model have been accepted:
\* the exception it raises (NoExc: none), the table and drop_id it returns
_run_validations(df, X_df, freq) ==
    LET drop_id == id_missing(df)
        df1 == IF drop_id THEN assign_id(df) ELSE df
        X_df1 == IF drop_id /\ X_df.present
                 THEN Some(Append(X_df.v, "unique_id")) ELSE X_df
        raised ==
            IF is_nan_or_none_any(df1)
            THEN Exc("ValueError", 0, "Target column cannot contain missing values")
            ELSE IF ~freq_ok(df1, freq)
            THEN Exc("ValueError", 0, "Series contain missing or duplicate timestamps")
            ELSE NoExc
    IN [raised |-> raised, df |-> df1, X_df |-> X_df1, drop_id |-> drop_id]

(* --------------------------- _validate_exog --------------------------- *)
BaseCols == {"unique_id", "ds", "y"}

\* [c for c in cols if c not in base_cols]
NonBase(cols) == SelectSeq(cols, LAMBDA c : c \notin BaseCols)

\* _validate_exog(df, X_df, hist_exog): the exception it raises, or df and
\* X_df with their columns selected and ordered; df[[...]] with a name that
\* is not a column raises KeyError
_validate_exog(df, X_df, hist_exog_list) ==
    LET exogs == NonBase(df.cols)
        hist_exog == IF hist_exog_list.present THEN hist_exog_list.v ELSE <<>>
        futr_all == IF X_df.present THEN NonBase(X_df.v) ELSE <<>>
        futr_exog == SelectSeq(futr_all, LAMBDA f : ~Contains(hist_exog, f))
        base == <<"unique_id", "ds", "y">>
    IN IF ~X_df.present
       THEN [raised |-> NoExc,
             df |-> [df EXCEPT !.cols =
                        base \o SelectSeq(exogs, LAMBDA c : Contains(hist_exog, c))],
             X_df |-> None]
       ELSE IF Range(futr_all) \ Range(exogs) # {}
       THEN [raised |-> Exc("ValueError", 0, "exogenous features present in X_df but not in df"),
             df |-> df, X_df |-> X_df]
       ELSE IF Range(hist_exog) \ Range(exogs) # {}
       THEN [raised |-> Exc("KeyError", 0, ""), df |-> df, X_df |-> X_df]
       ELSE [raised |-> NoExc,
             df |-> [df EXCEPT !.cols = base \o futr_exog \o hist_exog],
             X_df |-> Some(<<"unique_id", "ds">> \o futr_exog)]

(* -------------------- _prepare_level_and_quantiles -------------------- *)
(* A quantile is held as its number of hundredths p (q = p / 100).  The    *)
(* two conversions below are Python's on IEEE doubles: 200 * 0.28, 200 *   *)
(* 0.57, 200 * 0.58 and 0.29 * 100, 0.57 * 100, 0.58 * 100 fall just off   *)
(* the integer and int() truncates towards zero.                           *)
Abs(x) == IF x < 0 THEN -x ELSE x

\* int(100 - 200 * q)
IntLevel(p) ==
    CASE p = 28 -> 43
      [] p = 57 -> -13
      [] p = 58 -> -15
      [] OTHER -> 100 - 2 * p

\* int(q * 100)
IntPercent(p) == IF p \in {29, 57, 58} THEN p - 1 ELSE p

\* _prepare_level_and_quantiles(level, quantiles)
_prepare_level_and_quantiles(level, quantiles) ==
    IF level.present /\ quantiles.present
    THEN [raised |-> Exc("ValueError", 0, "You should provide level or quantiles, but not both."),
          level |-> level, quantiles |-> quantiles]
    ELSE IF ~quantiles.present
    THEN [raised |-> NoExc, level |-> level, quantiles |-> quantiles]
    ELSE IF \E i \in 1..Len(quantiles.v) : ~(0 < quantiles.v[i] /\ quantiles.v[i] < 100)
    THEN [raised |-> Exc("ValueError", 0, "quantiles should be floats between 0 and 1."),
          level |-> level, quantiles |-> quantiles]
    ELSE [raised |-> NoExc,
          level |-> Some([i \in 1..Len(quantiles.v) |-> Abs(IntLevel(quantiles.v[i]))]),
          quantiles |-> quantiles]

(* ----------------------- _array_tails and _tail ----------------------- *)
\* a faulty variant of _array_tails: the first rows of each series instead of the last
_array_heads(x, sizes, out_sizes) ==
    LET raised == \E i \in 1..Len(sizes) : out_sizes[i] > sizes[i]
    IN [raised |-> raised,
        v |-> IF raised THEN <<>>
              ELSE Flatten([i \in 1..Len(sizes) |->
                       SubSeq(x, SeriesStart(sizes, i) + 1,
                              SeriesStart(sizes, i) + out_sizes[i])])]

\* _array_tails(x, indptr, out_sizes), with sizes = diff(indptr): whether it
\* raises ValueError, and x[idxs] with idxs = arange(end - size, end) per series
_array_tails(x, sizes, out_sizes) ==
    LET raised == \E i \in 1..Len(sizes) : out_sizes[i] > sizes[i]
    IN [raised |-> raised,
        v |-> IF raised THEN <<>>
              ELSE Flatten([i \in 1..Len(sizes) |->
                       SubSeq(x, SeriesStart(sizes, i) + sizes[i] - out_sizes[i] + 1,
                              SeriesStart(sizes, i) + sizes[i])])]

\* a processed table: the ids in order, the rows per id, the sorted rows
ProcessedDF(uids, sizes, rows) == [uids |-> uids, sizes |-> sizes, rows |-> rows]

\* _tail(proc, n): new_sizes = minimum(diff(indptr), n)
_tail(proc, n) ==
    LET new_sizes == [i \in 1..Len(proc.sizes) |-> Min(proc.sizes[i], n)]
        new_data == _array_tails(proc.rows, proc.sizes, new_sizes)
    IN [raised |-> new_data.raised,
        proc |-> ProcessedDF(proc.uids, new_sizes, new_data.v)]

(* ----------------------------- _preprocess ---------------------------- *)
\* _maybe_add_date_features without one-hot encoding: the date features are
\* new last columns of df and of X_df (time_features builds X_df when the
\* caller gave none); nothing is added for an integer freq
_maybe_add_date_features(df, X_df, features, freq, h) ==
    IF features = <<>> \/ freq.type # "str"
    THEN [df |-> df, X_df |-> X_df]
    ELSE [df |-> [df EXCEPT !.cols = df.cols \o features],
          X_df |-> IF h = 0 THEN None
                   ELSE IF X_df.present THEN Some(X_df.v \o features)
                   ELSE Some(<<"unique_id", "ds">> \o features)]

\* row order of ufp.process_df: by id, then by time; a stable sort
RowBefore(rows, i, j) ==
    \/ rows[i].unique_id < rows[j].unique_id
    \/ rows[i].unique_id = rows[j].unique_id /\ rows[i].ds < rows[j].ds
    \/ rows[i].unique_id = rows[j].unique_id /\ rows[i].ds = rows[j].ds /\ i < j

SortRows(rows) ==
    LET n == Len(rows)
        rank(i) == Cardinality({j \in 1..n : RowBefore(rows, j, i)}) + 1
    IN [k \in 1..n |-> rows[CHOOSE i \in 1..n : rank(i) = k]]

RECURSIVE SortedSeq(_)
\* the elements of a set of integers in increasing order
SortedSeq(S) ==
    IF S = {} THEN <<>> ELSE <<SetMin(S)>> \o SortedSeq(S \ {SetMin(S)})

\* ufp.process_df(df, id_col, time_col, target_col)
process_df(df) ==
    LET uids == SortedSeq(Uids(df))
    IN ProcessedDF(uids,
                   [i \in 1..Len(uids) |->
                       Cardinality({j \in 1..Len(df.rows) :
                                       df.rows[j].unique_id = uids[i]})],
                   SortRows(df.rows))

\* _preprocess(df, X_df, h, freq, date_features, ...)
_preprocess(df, X_df, h, freq, date_features) ==
    LET added == _maybe_add_date_features(df, X_df, date_features, freq, h)
        hasXf == added.X_df.present /\ Len(added.X_df.v) > 2
    IN [df |-> added.df,
        processed |-> process_df(added.df),
        X_future |-> hasXf,
        x_cols |-> NonBase(added.df.cols),
        futr_cols |-> IF hasXf
                      THEN Some(SelectSeq(added.X_df.v,
                                          LAMBDA c : c \notin {"unique_id", "ds"}))
                      ELSE None]

(* ---------------- model parameters and input restriction -------------- *)
\* _validate_input_size raises: min(diff(indptr)) < input_size + horizon
_validate_input_size(processed, model_input_size, model_horizon) ==
    \E i \in 1..Len(processed.sizes) :
        processed.sizes[i] < model_input_size + model_horizon

\* _restrict_input_samples(level, input_size, model_horizon, h)
_restrict_input_samples(level, input_size, model_horizon, h) ==
    IF level.present
    THEN 3 * input_size + (IF model_horizon > h THEN model_horizon ELSE h)
    ELSE input_size

\* _process_exog_features(processed.data, x_cols, hist_exog_list): the
\* exception it raises, or the columns of X in row order
_process_exog_features(x_cols, hist_exog_list) ==
    IF x_cols = <<>> \/ ~hist_exog_list.present
    THEN [raised |-> NoExc, x_order |-> x_cols]
    ELSE IF Range(hist_exog_list.v) \ Range(x_cols) # {}
    THEN [raised |-> Exc("ValueError", 0, "features declared as historic were not found in df"),
          x_order |-> x_cols]
    ELSE [raised |-> NoExc,
          x_order |-> SelectSeq(x_cols, LAMBDA c : ~Contains(hist_exog_list.v, c))
                          \o hist_exog_list.v]

(* ------------------- the engine behind the endpoints ------------------ *)
(* A deterministic stub of the service for the top-level calls.  The key   *)
(* of an interval is [side, level], standing for the string                *)
(* "<side>-<level>"; the value of a bound at a row is tagged with its side *)
(* and level.                                                              *)
RECURSIVE DistinctSeq(_)
\* the elements of a sequence in order of first occurrence
DistinctSeq(seq) ==
    IF seq = <<>> THEN <<>>
    ELSE LET front == DistinctSeq(SubSeq(seq, 1, Len(seq) - 1))
         IN IF Contains(front, seq[Len(seq)]) THEN front
            ELSE Append(front, seq[Len(seq)])

IntervalKey(side, lv) == [side |-> side, level |-> lv]

\* the intervals of a response with point values `mean` for the levels asked
EngineIntervals(mean, level) ==
    IF ~level.present THEN None
    ELSE LET lvs == DistinctSeq(level.v)
             entry(side, lv) ==
                 [k |-> IntervalKey(side, lv),
                  v |-> [j \in 1..Len(mean) |-> <<side, lv, mean[j]>>]]
         IN Some(Flatten([i \in 1..Len(lvs) |->
                    <<entry("lo", lvs[i]), entry("hi", lvs[i])>>]))

\* the body of a 200 response to payload p of a top-level call: p.series,
\* p.h, p.level, p.threshold_method
EngineTop(method, p) ==
    LET hasX == p.series.X.present
        base == IF method = "forecast"
                THEN Engine(p.series, "v2/forecast", p.h)
                ELSE Engine(p.series, "v2/cross_validation", p.h)
        flags == [j \in 1..Len(base.mean) |-> FALSE]
        scores == [j \in 1..Len(base.mean) |-> <<"score", base.mean[j]>>]
        full == [base EXCEPT !.intervals = EngineIntervals(base.mean, p.level)]
    IN CASE method = "forecast" ->
              [full EXCEPT !.weights_x = IF hasX THEN Some(<<"w", p.series.sizes>>)
                                         ELSE None]
         [] method = "cross_validation" -> full
         [] method = "detect_anomalies" ->
              [full EXCEPT !.idxs = None, !.anomaly = Some(flags),
                           !.weights_x = IF hasX THEN Some(<<"w", p.series.sizes>>)
                                         ELSE None]
         [] method = "detect_anomalies_online" ->
              [full EXCEPT !.anomaly = Some(flags),
                           !.anomaly_score = Some(scores),
                           !.accumulated_anomaly_score =
                               IF p.threshold_method = "multivariate"
                               THEN Some(scores) ELSE None]
         [] OTHER -> NoResponse

(* ------------------------- output reconstruction ---------------------- *)
(* A column name is [name, kind, n]: a plain column ("ds", "TimeGPT"), or  *)
(* TimeGPT-lo-n, TimeGPT-hi-n, TimeGPT-q-n.  An output table is [cols,     *)
(* data], data[i] being the values of column cols[i].                      *)
Col(name) == [name |-> name, kind |-> "", n |-> 0]
BoundCol(side, lv) == [name |-> "TimeGPT", kind |-> side, n |-> lv]
QCol(p) == [name |-> "TimeGPT", kind |-> "q", n |-> p]

Table(cols, data) == [cols |-> cols, data |-> data]

\* df[col]: the values of the (last) column named col
Column(df, col) ==
    df.data[SetMax({i \in 1..Len(df.cols) : df.cols[i] = col})]

\* ufp.assign_columns(df, col, values)
assign_columns(df, col, values) ==
    IF Contains(df.cols, col)
    THEN Table(df.cols, [i \in 1..Len(df.cols) |->
                            IF df.cols[i] = col THEN values ELSE df.data[i]])
    ELSE Table(Append(df.cols, col), Append(df.data, values))

RECURSIVE Digits(_)
\* str(n) as its decimal digits
Digits(n) == IF n < 10 THEN <<n>> ELSE Append(Digits(n \div 10), n % 10)

RECURSIVE LexLess(_, _)
\* Python's s < t on strings of digits
LexLess(s, t) ==
    IF t = <<>> THEN FALSE
    ELSE IF s = <<>> THEN TRUE
    ELSE IF Head(s) # Head(t) THEN Head(s) < Head(t)
    ELSE LexLess(Tail(s), Tail(t))

\* "<a.side>-<a.level>" < "<b.side>-<b.level>": "hi" sorts before "lo"
KeyLess(a, b) ==
    \/ a.side = "hi" /\ b.side = "lo"
    \/ a.side = b.side /\ LexLess(Digits(a.level), Digits(b.level))

\* sorted(intervals.keys())
SortedKeys(intervals) ==
    LET n == Len(intervals)
        rank(e) == Cardinality({f \in 1..n :
                                   KeyLess(intervals[f].k, intervals[e].k)}) + 1
    IN [r \in 1..n |-> intervals[CHOOSE e \in 1..n : rank(e) = r].k]

\* _maybe_add_intervals(df, intervals): one column TimeGPT-<k> per key, in
\* sorted key order, after the columns of df
_maybe_add_intervals(df, intervals) ==
    IF ~intervals.present \/ intervals.v = <<>> THEN df
    ELSE LET keys == SortedKeys(intervals.v)
             valueOf(k) ==
                 intervals.v[CHOOSE e \in 1..Len(intervals.v) :
                                 intervals.v[e].k = k].v
         IN Table(df.cols \o [r \in 1..Len(keys) |->
                                 BoundCol(keys[r].side, keys[r].level)],
                  df.data \o [r \in 1..Len(keys) |-> valueOf(keys[r])])

\* sorted(seq) for a sequence of integers
SortedInts(seq) ==
    LET n == Len(seq)
        before(i, j) == seq[i] < seq[j] \/ (seq[i] = seq[j] /\ i < j)
        rank(i) == Cardinality({j \in 1..n : before(j, i)}) + 1
    IN [k \in 1..n |-> seq[CHOOSE i \in 1..n : rank(i) = k]]

\* the column a quantile is read from: "TimeGPT" if q == 0.5, else
\* lv = int(100 - 200 * q), "lo" if lv > 0 else "hi", abs(lv)
QuantileSource(p) ==
    IF p = 50 THEN Col("TimeGPT")
    ELSE BoundCol(IF IntLevel(p) > 0 THEN "lo" ELSE "hi", Abs(IntLevel(p)))

RECURSIVE ConvertLoop(_, _, _)
\* the loop `for q in sorted(quantiles)`; df[col] with no such column raises
ConvertLoop(df, out_cols, qs) ==
    IF qs = <<>> THEN [raised |-> NoExc, df |-> df, out_cols |-> out_cols]
    ELSE IF ~Contains(df.cols, QuantileSource(Head(qs)))
    THEN [raised |-> Exc("KeyError", 0, ""), df |-> df, out_cols |-> out_cols]
    ELSE ConvertLoop(assign_columns(df, QCol(IntPercent(Head(qs))),
                                    Column(df, QuantileSource(Head(qs)))),
                     Append(out_cols, QCol(IntPercent(Head(qs)))), Tail(qs))

\* _maybe_convert_level_to_quantiles(df, quantiles)
_maybe_convert_level_to_quantiles(df, quantiles) ==
    IF ~quantiles.present THEN [raised |-> NoExc, df |-> df]
    ELSE LET kept == SelectSeq(df.cols, LAMBDA c : c.kind \notin {"lo", "hi"})
             done == ConvertLoop(df, kept, SortedInts(quantiles.v))
         IN [raised |-> done.raised,
             df |-> Table(done.out_cols,
                          [i \in 1..Len(done.out_cols) |->
                              Column(done.df, done.out_cols[i])])]

\* ufp.drop_columns(df, id_col)
drop_columns(df, col) ==
    LET keep == {i \in 1..Len(df.cols) : df.cols[i] # col}
        idx == SortedSeq(keep)
    IN Table([i \in 1..Len(idx) |-> df.cols[idx[i]]],
             [i \in 1..Len(idx) |-> df.data[idx[i]]])

\* _maybe_drop_id(df, id_col, drop)
_maybe_drop_id(df, drop) ==
    IF drop THEN drop_columns(df, Col("unique_id")) ELSE df

\* ufp.repeat(uids, sizes)
Repeat(uids, sizes) ==
    Flatten([i \in 1..Len(uids) |-> [k \in 1..sizes[i] |-> uids[i]]])

\* the last time of series i of a processed table
LastTime(proc, i) == proc.rows[SeriesStart(proc.sizes, i) + proc.sizes[i]].ds

\* payload["series"] of a call: y and sizes of the processed table, the
\* columns x_order as the rows of X, the columns futr_cols (forecast with
\* future features only) as the rows of X_future
PayloadSeries(proc, x_order, futr_cols, freq, h) ==
    LET n == Len(proc.rows)
    IN [y |-> [j \in 1..n |-> proc.rows[j].y.v],
        sizes |-> proc.sizes,
        X |-> IF x_order = <<>> THEN None
              ELSE Some([r \in 1..Len(x_order) |->
                           [j \in 1..n |-> <<x_order[r], proc.rows[j].unique_id,
                                             proc.rows[j].ds>>]]),
        X_future |-> IF ~futr_cols.present THEN None
                     ELSE Some([r \in 1..Len(futr_cols.v) |->
                             Flatten([i \in 1..Len(proc.uids) |->
                                 [k \in 1..h |->
                                     <<futr_cols.v[r], proc.uids[i],
                                       LastTime(proc, i) + k * freq.step>>]])])]

\* seq[i] for a Python index i, negative indices counting from the end
PyIndex(seq, i) == IF i >= 0 THEN seq[i + 1] ELSE seq[Len(seq) + i + 1]

\* the tables the methods build from the response r, before any interval
\* column: the exception raised on the way (NoExc: none) and the table
ForecastFrame(proc, freq, h, r) ==
    Table(<<Col("unique_id"), Col("ds"), Col("TimeGPT")>>,
          <<Repeat(proc.uids, [i \in 1..Len(proc.uids) |-> h]),
            Flatten([i \in 1..Len(proc.uids) |->
                [k \in 1..h |-> LastTime(proc, i) + k * freq.step]]),
            r.mean>>)

\* _parse_in_sample_output, before its interval columns
InSampleFrame(proc, r) ==
    LET times == _array_tails([j \in 1..Len(proc.rows) |-> proc.rows[j].ds],
                              proc.sizes, r.sizes.v)
        targets == _array_tails([j \in 1..Len(proc.rows) |-> proc.rows[j].y.v],
                                proc.sizes, r.sizes.v)
    IN [raised |-> IF times.raised THEN Exc("ValueError", 0, "out_sizes must be at most the original sizes.")
                   ELSE NoExc,
        df |-> Table(<<Col("unique_id"), Col("ds"), Col("y"), Col("TimeGPT")>>,
                     <<Repeat(proc.uids, r.sizes.v), times.v, targets.v, r.mean>>)]

\* times[idxs], targets[idxs] of the online detection and of the cross validation
TimesAt(proc, idxs) == [j \in 1..Len(idxs) |-> PyIndex(proc.rows, idxs[j]).ds]
TargetsAt(proc, idxs) == [j \in 1..Len(idxs) |-> PyIndex(proc.rows, idxs[j]).y.v]

OnlineFrame(proc, r) ==
    Table(<<Col("unique_id"), Col("ds"), Col("y"), Col("TimeGPT"),
            Col("anomaly"), Col("anomaly_score")>>,
          <<Repeat(proc.uids, r.sizes.v), TimesAt(proc, r.idxs.v),
            TargetsAt(proc, r.idxs.v), r.mean, r.anomaly.v, r.anomaly_score.v>>)

\* the cutoff column: times[repeat(idxs[window_starts] - 1, h)]
Cutoffs(proc, r, h) ==
    LET total == SumSeq(r.sizes.v)
        window_starts == [w \in 1..CeilDiv(total, h) |-> (w - 1) * h]
    IN Flatten([w \in 1..Len(window_starts) |->
           [k \in 1..h |-> PyIndex(proc.rows,
                                   r.idxs.v[window_starts[w] + 1] - 1).ds]])

CrossValidationFrame(proc, r, h) ==
    [raised |-> IF Len(Cutoffs(proc, r, h)) # Len(r.idxs.v)
                THEN Exc("ValueError", 0, "All arrays must be of the same length")
                ELSE NoExc,
     df |-> Table(<<Col("unique_id"), Col("ds"), Col("cutoff"), Col("y"),
                    Col("TimeGPT")>>,
                  <<Repeat(proc.uids, r.sizes.v), TimesAt(proc, r.idxs.v),
                    Cutoffs(proc, r, h), TargetsAt(proc, r.idxs.v), r.mean>>)]

\* a table-returning method from its response r to its return value: the
\* exception raised on the way (NoExc: none) and the table returned
Reconstruct(method, a, l, r) ==
    CASE method = "forecast" ->
           LET df == _maybe_add_intervals(
                         ForecastFrame(l.processed, a.freq, a.h, r), r.intervals)
               conv == _maybe_convert_level_to_quantiles(df, l.quantiles)
           IN [raised |-> conv.raised, df |-> _maybe_drop_id(conv.df, l.drop_id)]
      [] method = "detect_anomalies" ->
           LET frame == InSampleFrame(l.processed, r)
               df == assign_columns(_maybe_add_intervals(frame.df, r.intervals),
                                    Col("anomaly"), r.anomaly.v)
           IN [raised |-> frame.raised, df |-> _maybe_drop_id(df, l.drop_id)]
      [] method = "detect_anomalies_online" ->
           LET frame == OnlineFrame(l.processed, r)
               multi == a.threshold_method = "multivariate"
           IN IF multi /\ ~r.accumulated_anomaly_score.present
              THEN [raised |-> Exc("KeyError", 0, "accumulated_anomaly_score"),
                    df |-> frame]
              ELSE [raised |-> NoExc,
                    df |-> _maybe_add_intervals(
                               IF multi
                               THEN assign_columns(frame,
                                        Col("accumulated_anomaly_score"),
                                        r.accumulated_anomaly_score.v)
                               ELSE frame, r.intervals)]
      [] OTHER ->
           LET frame == CrossValidationFrame(l.processed, r, a.h)
               df == _maybe_drop_id(_maybe_add_intervals(frame.df, r.intervals),
                                    l.drop_id)
               conv == _maybe_convert_level_to_quantiles(df, l.quantiles)
           IN [raised |-> IF frame.raised # NoExc THEN frame.raised ELSE conv.raised,
               df |-> conv.df]

(* ----------------------- the steps of the methods --------------------- *)
\* a faulty variant of Steps: finetune checks the series' length after its request
Steps_request_first(method) ==
    CASE method = "forecast" ->
           <<"run_validations", "validate_exog", "prepare_level", "preprocess",
             "model_params", "input_size", "restrict", "request", "assemble">>
      [] method = "finetune" ->
           <<"run_validations", "preprocess", "model_params", "request",
             "input_size", "assemble">>
      [] method = "detect_anomalies" ->
           <<"run_validations", "preprocess", "model_params", "request", "assemble">>
      [] method = "detect_anomalies_online" ->
           <<"run_validations", "preprocess", "request", "assemble">>
      [] OTHER ->
           <<"run_validations", "prepare_level", "preprocess", "model_params",
             "restrict", "request", "assemble">>

\* the statements of each method, in program order
Steps(method) ==
    CASE method = "forecast" ->
           <<"run_validations", "validate_exog", "prepare_level", "preprocess",
             "model_params", "input_size", "restrict", "request", "assemble">>
      [] method = "finetune" ->
           <<"run_validations", "preprocess", "model_params", "input_size",
             "request", "assemble">>
      [] method = "detect_anomalies" ->
           <<"run_validations", "preprocess", "model_params", "request", "assemble">>
      [] method = "detect_anomalies_online" ->
           <<"run_validations", "preprocess", "request", "assemble">>
      [] OTHER ->
           <<"run_validations", "prepare_level", "preprocess", "model_params",
             "restrict", "request", "assemble">>

\* the statement after `step`, "returned" after the last one
After(method, step) ==
    LET s == Steps(method)
        i == CHOOSE k \in 1..Len(s) : s[k] = step
    IN IF i = Len(s) THEN "returned" ELSE s[i + 1]

\* the variables of the request pipeline that a top-level call's own steps
\* leave alone
pipeline == <<cfg, call, req, collected, results>>

\* the call ends by raising exc
Raise(exc) == pc' = "raised" /\ error' = exc

\* the call goes on to its next statement
Goto(step) == pc' = After(args.method, step) /\ UNCHANGED error

\* the methods that pass the caller's validate_api_key on (finetune and
\* detect_anomalies_online pass False)
ChecksKey(a) ==
    a.validate_api_key /\ a.method \in {"forecast", "detect_anomalies", "cross_validation"}

\* a faulty variant of pop_attrs: no call removes an attribute
pop_attrs_never(method, at) == at

\* self.__dict__.pop("weights_x", None) and, in forecast,
\* self.__dict__.pop("feature_contributions", None) at the start of a call;
\* cross_validation and finetune pop nothing
pop_attrs(method, at) ==
    CASE method = "forecast" -> NoAttrs
      [] method \in {"detect_anomalies", "detect_anomalies_online"} ->
           [at EXCEPT !.weights_x = None]
      [] OTHER -> at

\* the methods that end with self._maybe_assign_weights(resp["weights_x"], ...)
assigns_weights(method) == method \in {"forecast", "detect_anomalies"}

\* _maybe_assign_weights: self.weights_x is set unless the weights are None
_maybe_assign_weights(at, weights, x_cols) ==
    IF ~weights.present THEN at
    ELSE [at EXCEPT !.weights_x = Some([features |-> x_cols, weights |-> weights.v])]

\* resp["feature_contributions"]: the engine computes them when the payload
\* asks for them, `feature_contributions and X is not None`
EngineContributions(expected, s) ==
    IF expected /\ s.X.present THEN Some(<<"shap", s.sizes>>) ELSE None

\* _maybe_assign_feature_contributions: self.feature_contributions is set
\* when they are expected and the response carries them
_maybe_assign_feature_contributions(at, expected_contributions, contributions, x_cols) ==
    IF ~expected_contributions \/ ~contributions.present THEN at
    ELSE [at EXCEPT !.feature_contributions =
                       Some([features |-> x_cols, shap |-> contributions.v])]

\* the attributes of the client when a call returns its table
assign_attrs(a, l, at, response, s) ==
    LET fc == IF a.method = "forecast"
              THEN _maybe_assign_feature_contributions(
                       at, a.feature_contributions,
                       EngineContributions(a.feature_contributions, s), l.x_cols)
              ELSE at
    IN IF assigns_weights(a.method)
       THEN _maybe_assign_weights(fc, response.weights_x, l.x_cols)
       ELSE fc

\* detect_anomalies_online's guard, the pops, then _run_validations
RunValidations ==
    /\ pc = "run_validations"
    /\ IF /\ args.method = "detect_anomalies_online"
          /\ args.threshold_method = "multivariate"
          /\ args.num_partitions > 1
       THEN /\ Raise(Exc("ValueError", 0, "Cannot use more than 1 partition for multivariate anomaly detection"))
            /\ UNCHANGED <<loc, sent, attrs>>
       ELSE \E key_valid \in BOOLEAN :
              /\ attrs' = pop_attrs(args.method, attrs)
              /\ sent' = IF ChecksKey(args)
                         THEN Append(sent, Request("GET", "/validate_api_key"))
                         ELSE sent
              /\ IF ChecksKey(args) /\ ~key_valid
                 THEN /\ Raise(Exc("Exception", 0, "API Key not valid"))
                      /\ UNCHANGED loc
                 ELSE LET v == _run_validations(loc.df, loc.X_df, args.freq)
                      IN IF v.raised # NoExc
                         THEN Raise(v.raised) /\ UNCHANGED loc
                         ELSE /\ loc' = [loc EXCEPT !.df = v.df, !.X_df = v.X_df,
                                                    !.drop_id = v.drop_id]
                              /\ Goto("run_validations")
    /\ UNCHANGED <<args, model_params, series, parts, resp, out, pipeline>>

\* forecast: _validate_exog
ValidateExog ==
    /\ pc = "validate_exog"
    /\ LET v == _validate_exog(loc.df, loc.X_df, args.hist_exog_list)
       IN IF v.raised # NoExc
          THEN Raise(v.raised) /\ UNCHANGED loc
          ELSE /\ loc' = [loc EXCEPT !.df = v.df, !.X_df = v.X_df]
               /\ Goto("validate_exog")
    /\ UNCHANGED <<args, sent, model_params, series, parts, resp, out, pipeline, attrs>>

\* forecast, cross_validation: _prepare_level_and_quantiles
PrepareLevel ==
    /\ pc = "prepare_level"
    /\ LET v == _prepare_level_and_quantiles(loc.level, loc.quantiles)
       IN IF v.raised # NoExc
          THEN Raise(v.raised) /\ UNCHANGED loc
          ELSE /\ loc' = [loc EXCEPT !.level = v.level, !.quantiles = v.quantiles]
               /\ Goto("prepare_level")
    /\ UNCHANGED <<args, sent, model_params, series, parts, resp, out, pipeline, attrs>>

\* _preprocess: forecast passes X_df and h, the other methods None and 0;
\* finetune asks for no date features
Preprocess ==
    /\ pc = "preprocess"
    /\ LET fc == args.method = "forecast"
           v == _preprocess(loc.df, IF fc THEN loc.X_df ELSE None,
                            IF fc THEN args.h ELSE 0, args.freq,
                            IF args.method = "finetune" THEN <<>>
                            ELSE args.date_features)
       IN loc' = [loc EXCEPT !.df = v.df, !.processed = v.processed,
                             !.X_future = v.X_future, !.x_cols = v.x_cols,
                             !.futr_cols = v.futr_cols]
    /\ Goto("preprocess")
    /\ UNCHANGED <<args, sent, model_params, series, parts, resp, out, pipeline, attrs>>

\* the key of self._model_params: one model, the standardized freq
ModelKey(a) == <<"timegpt-1", a.freq>>

\* the metadata the service answers a query of this call with
ServiceParams(a) == <<a.model_input_size, a.model_horizon>>

\* a faulty variant of key_cached: every lookup queries the service
key_cached_never(cache, key) == FALSE

\* `key not in self._model_params`, negated
key_cached(cache, key) == key \in DOMAIN cache

\* a faulty variant of cache_store: the pair is stored as (horizon, input_size)
cache_store_swapped(cache, key, params) ==
    [k \in DOMAIN cache \cup {key} |->
        IF k = key THEN <<params[2], params[1]>> ELSE cache[k]]

\* self._model_params[key] = (params["input_size"], params["horizon"])
cache_store(cache, key, params) ==
    [k \in DOMAIN cache \cup {key} |-> IF k = key THEN params ELSE cache[k]]

\* _get_model_params: the metadata is queried unless the key is cached, and
\* stored; the call gets the cached entry.  The query may fail like any
\* request
GetModelParams ==
    /\ pc = "model_params"
    /\ LET key == ModelKey(args)
           got(cache) == [loc EXCEPT !.model_input_size = cache[key][1],
                                     !.model_horizon = cache[key][2]]
       IN IF key_cached(model_params, key)
          THEN /\ loc' = got(model_params)
               /\ Goto("model_params")
               /\ UNCHANGED <<sent, model_params>>
          ELSE /\ sent' = Append(sent, Request("GET", "/model_params"))
               /\ \/ /\ model_params' =
                            cache_store(model_params, key, ServiceParams(args))
                     /\ loc' = got(model_params')
                     /\ Goto("model_params")
                  \/ /\ Raise(Exc("ApiError", 500, "body"))
                     /\ UNCHANGED <<loc, model_params>>
    /\ UNCHANGED <<args, series, parts, resp, out, pipeline, attrs>>

\* finetune always, forecast `if finetune_steps > 0 or add_history`
\* (add_history is False): _validate_input_size
ValidateInputSize ==
    /\ pc = "input_size"
    /\ IF /\ args.method = "finetune" \/ args.finetune_steps > 0
          /\ _validate_input_size(loc.processed, loc.model_input_size,
                                  loc.model_horizon)
       THEN Raise(Exc("ValueError", 0, "Some series are too short."))
       ELSE Goto("input_size")
    /\ UNCHANGED <<args, loc, sent, model_params, series, parts, resp, out, pipeline, attrs>>

\* forecast, cross_validation: `if restrict_input: processed = _tail(...)`,
\* cross_validation with n_windows=1 and step_size=h
RestrictInput ==
    /\ pc = "restrict"
    /\ LET n == _restrict_input_samples(loc.level, loc.model_input_size,
                                        loc.model_horizon, args.h)
           new_input_size == IF args.method = "forecast" THEN n ELSE n + args.h
           t == _tail(loc.processed, new_input_size)
       IN IF args.finetune_steps = 0 /\ loc.x_cols = <<>>
          THEN IF t.raised
               THEN Raise(Exc("ValueError", 0, "out_sizes must be at most the original sizes."))
                    /\ UNCHANGED loc
               ELSE loc' = [loc EXCEPT !.processed = t.proc] /\ Goto("restrict")
          ELSE UNCHANGED loc /\ Goto("restrict")
    /\ UNCHANGED <<args, sent, model_params, series, parts, resp, out, pipeline, attrs>>

\* the columns of X in row order: forecast and detect_anomalies take
\* processed.data[:, 1:], the online detection and the cross validation
\* _process_exog_features; finetune sends no X
XOrder(a, l) ==
    CASE a.method \in {"forecast", "detect_anomalies"} ->
           [raised |-> NoExc, x_order |-> l.x_cols]
      [] a.method = "finetune" -> [raised |-> NoExc, x_order |-> <<>>]
      [] OTHER -> _process_exog_features(l.x_cols, a.hist_exog_list)

\* the payload of a call around one series dict
Payload(a, l, s) ==
    [series |-> s, h |-> a.h, level |-> l.level,
     threshold_method |-> a.threshold_method]

\* the payload is built and sent: one request, or one per partition whose
\* responses are merged; any request may fail
SendRequest ==
    /\ pc = "request"
    /\ LET x == XOrder(args, loc)
           s == PayloadSeries(loc.processed, x.x_order,
                              IF args.method = "forecast" /\ loc.X_future
                              THEN loc.futr_cols ELSE None,
                              args.freq, args.h)
           ps == IF args.num_partitions = 0
                 THEN [raised |-> FALSE, parts |-> <<s>>]
                 ELSE _partition_series(s, args.num_partitions,
                          IF args.method = "forecast" THEN args.h ELSE 0)
           post == Request("POST", EndpointOf(args.method))
           answers == [i \in 1..Len(ps.parts) |->
                          EngineTop(args.method, Payload(args, loc, ps.parts[i]))]
       IN IF x.raised # NoExc
          THEN Raise(x.raised) /\ UNCHANGED <<sent, series, parts, resp>>
          ELSE IF ps.raised
          THEN /\ Raise(Exc("TypeError", 0, ""))
               /\ series' = s
               /\ UNCHANGED <<sent, parts, resp>>
          ELSE /\ series' = s
               /\ parts' = ps.parts
               /\ sent' = sent \o [i \in 1..Len(ps.parts) |-> post]
               /\ \/ /\ resp' = IF args.num_partitions = 0 THEN answers[1]
                                ELSE MergeResults(answers, ps.parts)
                     /\ Goto("request")
                  \/ /\ Raise(Exc("ApiError", 500, "body"))
                     /\ UNCHANGED resp
    /\ UNCHANGED <<args, loc, model_params, out, pipeline, attrs>>

\* the returned value is assembled: finetune returns the model id (a table
\* of no column stands for it), the other methods their table
AssembleOutput ==
    /\ pc = "assemble"
    /\ IF args.method = "finetune"
       THEN out' = Some(Table(<<>>, <<>>)) /\ Goto("assemble") /\ UNCHANGED attrs
       ELSE LET v == Reconstruct(args.method, args, loc, resp)
            IN IF v.raised # NoExc
               THEN Raise(v.raised) /\ UNCHANGED <<out, attrs>>
               ELSE /\ out' = Some(v.df)
                    /\ attrs' = assign_attrs(args, loc, attrs, resp, series)
                    /\ Goto("assemble")
    /\ UNCHANGED <<args, loc, sent, model_params, series, parts, resp, pipeline>>

NextCall ==
    \/ RunValidations
    \/ ValidateExog
    \/ PrepareLevel
    \/ Preprocess
    \/ GetModelParams
    \/ ValidateInputSize
    \/ RestrictInput
    \/ SendRequest
    \/ AssembleOutput

\* the local variables of a call at its entry
Locals(a) ==
    [df |-> a.df, X_df |-> a.X_df, drop_id |-> FALSE, level |-> a.level,
     quantiles |-> a.quantiles, processed |-> ProcessedDF(<<>>, <<>>, <<>>),
     X_future |-> FALSE, x_cols |-> <<>>, futr_cols |-> None,
     model_input_size |-> 0, model_horizon |-> 0]

\* a client with or without cached model parameters, about to run one of
\* the calls of `calls`
InitCall(calls) ==
    /\ args \in calls
    /\ loc = Locals(args)
    /\ sent = <<>>
    /\ model_params \in {EmptyCache,
                          cache_store(EmptyCache, ModelKey(args), ServiceParams(args))}
    /\ attrs = NoAttrs
    /\ pc = "run_validations"
    /\ cfg \in PipelineConfigs
    /\ call = <<>>
    /\ series = <<>>
    /\ parts = <<>>
    /\ req = <<>>
    /\ collected = {}
    /\ results = <<>>
    /\ resp = NoResponse
    /\ error = NoExc
    /\ out = None

(* ------------------- specifications of the top-level calls ------------ *)
\* most rows a series of a drawn table has, and its latest time
MaxRows == 3
MaxTime == 3
\* most levels or quantiles a call asks for
MaxLevels == 2

\* the rows of one series: how many rows the table has at each time
\* (0: a missing time, 2: a duplicated one)
TimeCounts ==
    {c \in [1..MaxTime -> 0..2] :
        LET total == SumSeq([t \in 1..MaxTime |-> c[t]])
        IN 1 <= total /\ total <= MaxRows}

\* the rows of series u with `c[t]` rows at time t, the target of the k-th
\* row being 10 * u + k
SeriesRows(u, c) ==
    LET times == Flatten([t \in 1..MaxTime |-> [k \in 1..c[t] |-> t]])
    IN [k \in 1..Len(times) |->
           [unique_id |-> u, ds |-> times[k], y |-> Some(10 * u + k)]]

Reverse(seq) == [i \in 1..Len(seq) |-> seq[Len(seq) + 1 - i]]

\* a caller's table: with an id column the series 1..n, newest row first;
\* without one a single series; `nan` is the row whose target is missing
\* (0: none) and feats are its feature columns
CallerTable(has_id, counts, nan, feats) ==
    LET rows == Reverse(Flatten([u \in 1..Len(counts) |->
                           SeriesRows(IF has_id THEN u ELSE 0, counts[u])]))
    IN [cols |-> (IF has_id THEN <<"unique_id">> ELSE <<>>) \o <<"ds", "y">> \o feats,
        rows |-> [i \in 1..Len(rows) |->
                     IF i = nan THEN [rows[i] EXCEPT !.y = None] ELSE rows[i]]]

\* a series with a row at each of the times 1..n
Complete(n) == [t \in 1..MaxTime |-> IF t <= n THEN 1 ELSE 0]

Daily == [type |-> "str", step |-> 1]

\* the methods whose `level` is a number, 99 by default
AnomalyMethods == {"detect_anomalies", "detect_anomalies_online"}

\* a call with the defaults of every argument but the method and the table
DefaultCall(method, df) ==
    [method |-> method, df |-> df, X_df |-> None, freq |-> Daily, h |-> 1,
     level |-> IF method \in AnomalyMethods THEN Some(<<99>>) ELSE None,
     quantiles |-> None, validate_api_key |-> FALSE,
     hist_exog_list |-> None, date_features |-> <<>>, finetune_steps |-> 0,
     num_partitions |-> 0, threshold_method |-> "univariate",
     model_input_size |-> 1, model_horizon |-> 1,
     feature_contributions |-> FALSE]

(* SpecValidate: every method on every table of one or two series, with    *)
(* and without an id column, with missing, duplicated and irregular times  *)
(* and with a missing target, at a string and at an integer frequency.     *)
ValidateTables ==
    {CallerTable(TRUE, counts, nan, <<>>) :
        counts \in {<<c>> : c \in TimeCounts}
                     \cup {<<c, d>> : c \in TimeCounts, d \in TimeCounts},
        nan \in 0..1}
      \cup {CallerTable(FALSE, <<c>>, nan, <<>>) : c \in TimeCounts, nan \in 0..1}

ValidateCalls ==
    {[DefaultCall(m, df) EXCEPT !.freq = f] :
        m \in Methods, df \in ValidateTables,
        f \in {Daily, [type |-> "int", step |-> 2]}}

InitValidate == InitCall(ValidateCalls) /\ model_params # EmptyCache

SpecValidate == InitValidate /\ [][NextCall]_vars

(* ============================== claims ================================ *)
Partitioned == call.num_partitions > 0

\* the response of one request carrying the whole payload
Unpartitioned == Engine(series, call.endpoint, call.h)

\* every request of the call has been answered and the response is at hand
Answered == pc \in {"got_resp", "returned"}

\* _partition_series has raised
PartitionRaised == pc = "raised" /\ error.type = "TypeError"

(* ---- C1 ---- *)
\* C1 (as claimed): for every payload and every n_partitions in 1..n_series,
\* partitioning then merging yields a `mean`, and it is the `mean` of the
\* single request with the whole payload, element for element.
C1_PartitionInvariance ==
    (Partitioned /\ call.num_partitions <= Len(series.sizes)) =>
        /\ ~PartitionRaised
        /\ Answered => resp.mean = Unpartitioned.mean

(* ---- C2 ---- *)
\* rows held by the partitions before partition p
RowsBefore(p) == SumSeq([q \in 1..(p - 1) |-> SumSeq(parts[q].sizes)])

\* C2 (as claimed): the merged idxs are the local idxs of each partition
\* increased by the row count of ALL partitions before it, so each one
\* selects in the whole buffer the row it selected in its partition.
C2_IdxsCumulativeOffset ==
    (Partitioned /\ Answered /\ resp.idxs.present) =>
        /\ resp.idxs.v =
              Flatten([p \in 1..Len(parts) |->
                  [j \in 1..Len(results[p].idxs.v) |->
                      results[p].idxs.v[j] + RowsBefore(p)]])
        /\ resp.idxs.v = Unpartitioned.idxs.v

(* ---- C3 ---- *)
\* row r of a feature matrix, reassembled from the sub-payloads
JoinedX(r) == Flatten([p \in 1..Len(parts) |-> parts[p].X.v[r]])
JoinedXFuture(r) == Flatten([p \in 1..Len(parts) |-> parts[p].X_future.v[r]])

\* C3 (as claimed): for every payload and n_part >= 1 _partition_series
\* returns sub-payloads whose sizes, y, rows of X and rows of X_future,
\* concatenated in list order, are the original arrays.
C3_PartitionsConcatenate ==
    (Partitioned /\ pc # "start") =>
        /\ ~PartitionRaised
        /\ Flatten([p \in 1..Len(parts) |-> parts[p].sizes]) = series.sizes
        /\ Flatten([p \in 1..Len(parts) |-> parts[p].y]) = series.y
        /\ \A p \in 1..Len(parts) :
              /\ Len(parts[p].y) = SumSeq(parts[p].sizes)
              /\ parts[p].X.present = series.X.present
        /\ series.X.present =>
              \A r \in 1..Len(series.X.v) : JoinedX(r) = series.X.v[r]
        /\ (series.X_future.present /\ call.endpoint = "v2/forecast") =>
              \A r \in 1..Len(series.X_future.v) :
                  JoinedXFuture(r) = series.X_future.v[r]

(* ---- C4 ---- *)
\* C4: whatever order the requests complete in, every filled slot of
\* `results` holds the response to the sub-payload of its own position, and
\* the merged response is the merge of the responses in position order.
C4_SlotHoldsOwnResponse ==
    Partitioned =>
        /\ \A p \in collected :
              results[p] = Engine(parts[p], call.endpoint, call.h)
        /\ Answered =>
              resp = MergeResults(
                        [p \in 1..Len(parts) |->
                            Engine(parts[p], call.endpoint, call.h)], parts)

\* the request of the last position completed first and its response is in
\* the last slot while the first slot is still empty
C4_Witness ==
    /\ Partitioned
    /\ Len(parts) >= 2
    /\ collected = {Len(parts)}
    /\ results[Len(parts)] = Engine(parts[Len(parts)], call.endpoint, call.h)
    /\ results[1] = NoResponse

(* ---- C5 ---- *)
SomeFailed == \E p \in 1..Len(req) : req[p].status = "failed"

\* C5: once a partition's request has failed, no merged response and no
\* output table is ever produced, and the call can only end by raising the
\* exception of a failed request.
C5_FailureNoPartialResult ==
    (Partitioned /\ SomeFailed) =>
        /\ pc \in {"dispatch", "shutdown", "raised"}
        /\ resp = NoResponse
        /\ out = None
        /\ pc # "dispatch" =>
              \E p \in 1..Len(req) :
                  req[p].status = "failed" /\ error = req[p].raised
        /\ (pc # "raised") => ENABLED Next

\* the call has raised although a sibling partition was answered
C5_Witness ==
    /\ Partitioned
    /\ pc = "raised"
    /\ \E p, q \in 1..Len(req) :
          /\ req[p].status = "failed"
          /\ req[q].status = "ok" /\ q \in collected
    /\ out = None

(* ---- C6 ---- *)
\* the request of an unpartitioned call
R == req[1]
InFlight == pc = "direct" /\ R.status = "running"
\* an attempt has failed and another one has been started after it; R.exc
\* and R.failedAt are those of the failed attempt
Retried == InFlight /\ R.attempt > 1
Gone == pc \in {"direct", "raised"} /\ R.status = "failed"

StatusListed(exc) ==
    exc.type = "ApiError" /\ exc.status_code \in {408, 409, 429, 502, 503, 504}

\* the causes the claim lists: connection reset, connect/read/write timeout,
\* remote protocol error, pool exhaustion, ApiError with a listed status
ClaimedCause(exc) ==
    \/ exc.type \in {"ConnectionResetError", "httpx.ConnectTimeout",
                     "httpx.ReadTimeout", "httpx.WriteTimeout",
                     "httpx.RemoteProtocolError", "httpcore.RemoteProtocolError",
                     "httpx.PoolTimeout"}
    \/ StatusListed(exc)

\* the causes the code retries: the claimed ones, and a failed connection
\* attempt, a read error and a write error
RetriedCause(exc) ==
    \/ ClaimedCause(exc)
    \/ exc.type \in {"httpcore.ConnectError", "httpx.ReadError", "httpx.WriteError"}

\* C6 (as claimed): a failed attempt is followed by another one only if its
\* cause is in the claimed list; any other exception ends the request at
\* once and is the exception raised.
C6_RetryOnlyClaimedCauses ==
    /\ Retried => ClaimedCause(R.exc)
    /\ (Gone /\ ~ClaimedCause(R.exc)) => R.raised = R.exc

\* C6 (amended): a failed attempt is followed by another one only if its
\* cause is in the claimed list or is a connection, read or write error; any
\* other exception ends the request at once and is the exception raised.
C6_RetryOnlyWhitelisted ==
    /\ Retried => RetriedCause(R.exc)
    /\ (Gone /\ ~RetriedCause(R.exc)) => R.raised = R.exc

\* an attempt that failed with a read error has been followed by another
C6_Witness == Retried /\ R.exc.type = "httpx.ReadError"

(* ---- C7 ---- *)
\* C7: a request all of whose attempts failed with a retriable cause ends
\* after max_retries attempts, or sooner at the first failure that happens
\* max_wait_time or more after the first attempt began; no attempt is made
\* past either limit, and the last attempt's exception is raised unchanged.
C7_StopsAtBudget ==
    /\ pc # "start" => R.attempt <= cfg.max_retries
    /\ Retried =>
          R.attempt - 1 < cfg.max_retries /\ R.failedAt < cfg.max_wait_time
    /\ (Gone /\ RetriedCause(R.exc)) =>
          /\ R.attempt = cfg.max_retries \/ R.failedAt >= cfg.max_wait_time
          /\ R.raised = R.exc

\* the request gave up on its second failure, before max_retries attempts,
\* because max_wait_time had elapsed
C7_Witness ==
    /\ Gone
    /\ RetriedCause(R.exc)
    /\ R.attempt = 2
    /\ R.attempt < cfg.max_retries
    /\ R.failedAt >= cfg.max_wait_time
    /\ R.raised = R.exc

(* ---- C8 ---- *)
\* C8 (as claimed): whatever max_retries, retry_interval and max_wait_time,
\* the request does not give up on a retriable status code before its
\* attempt number max_retries, so a transport that fails max_retries - 1
\* times with such a status and then answers is answered.  (Whether the
\* request gives up depends on the attempt number, the elapsed time and the
\* last failure only.)
C8_SucceedsAfterRetries ==
    (Gone /\ StatusListed(R.exc)) => R.attempt >= cfg.max_retries

\* C8 (amended): the request gives up on a retriable status code before
\* attempt number max_retries only if that failure happened max_wait_time
\* or more after the first attempt began; and the response of the attempt
\* that succeeds is what the caller gets.
C8_SucceedsWithinWait ==
    /\ (Gone /\ StatusListed(R.exc) /\ R.attempt < cfg.max_retries) =>
          R.failedAt >= cfg.max_wait_time
    /\ (~Partitioned /\ Answered) => R.status = "ok" /\ resp = Unpartitioned

\* max_retries - 1 failures with status 503, then a success, returned
C8_Witness ==
    /\ pc = "returned"
    /\ R.status = "ok"
    /\ R.attempt = cfg.max_retries
    /\ R.attempt >= 2
    /\ R.exc = Exc("ApiError", 503, "body")
    /\ resp = Unpartitioned

(* ---- C9 ---- *)
Unparsable(exc) == exc.body = "Could not parse JSON"

\* C9 (as claimed): an unparsable body raises an ApiError that ends the
\* request at once, whatever the status code: no attempt follows it.
C9_UnparsableNeverRetried ==
    /\ Retried => ~Unparsable(R.exc)
    /\ (Gone /\ Unparsable(R.exc)) =>
          R.raised = R.exc /\ R.exc.type = "ApiError"

\* C9 (amended): an unparsable body raises an ApiError with the response's
\* status code; an attempt follows it only if that status is 408, 409, 429,
\* 502, 503 or 504, otherwise the error ends the request at once.
C9_UnparsableRetriedOnListedStatus ==
    /\ (Retried /\ Unparsable(R.exc)) => StatusListed(R.exc)
    /\ (Gone /\ Unparsable(R.exc)) =>
          R.raised = R.exc /\ R.exc.type = "ApiError"

\* an unparsable 502 response has been followed by another attempt
C9_Witness ==
    /\ Retried
    /\ Unparsable(R.exc)
    /\ R.exc.status_code = 502

WellFormed(a) ==
    /\ a.X_df.present => a.method = "forecast"
    /\ a.quantiles.present => a.method \in {"forecast", "cross_validation"}
    /\ a.method \in AnomalyMethods => a.level.present
    /\ a.method = "finetune" => ~a.level.present
    /\ a.threshold_method = "multivariate" => a.method = "detect_anomalies_online"
    /\ a.method = "finetune" => a.date_features = <<>>
    /\ a.hist_exog_list.present =>
          a.method \in {"forecast", "cross_validation", "detect_anomalies_online"}
    /\ a.finetune_steps > 0 => a.method # "detect_anomalies"

GuardTables ==
    {CallerTable(has_id, <<c>>, nan, <<>>) :
        has_id \in BOOLEAN,
        c \in {Complete(n) : n \in 1..MaxRows}
                \cup {[t \in 1..MaxTime |-> IF t = 2 THEN 0 ELSE 1]},
        nan \in 0..1}

GuardCalls ==
    {a \in {[DefaultCall(m, df) EXCEPT
                !.validate_api_key = key, !.level = lv, !.quantiles = q,
                !.X_df = x, !.finetune_steps = steps,
                !.model_input_size = size, !.threshold_method = thr[1],
                !.num_partitions = thr[2]] :
              m \in Methods, df \in GuardTables, key \in BOOLEAN,
              lv \in {None, Some(<<80>>)}, q \in {None, Some(<<10>>)},
              x \in {None, Some(<<"unique_id", "ds", "b">>)},
              steps \in 0..1, size \in 1..2,
              thr \in {<<"univariate", 0>>, <<"multivariate", 2>>}} :
        WellFormed(a)}

InitGuards == InitCall(GuardCalls)

SpecGuards == InitGuards /\ [][NextCall]_vars

(* SpecTail: _array_tails and _tail applied to every ragged array of up to *)
(* MaxSeries series, with every choice of output sizes.  Row r of series i *)
(* of the array is the tag <<i, r>>.                                       *)
RaggedRows(sizes) ==
    Flatten([i \in 1..Len(sizes) |-> [r \in 1..sizes[i] |-> <<i, r>>]])

RaggedSizes == UNION {[1..k -> 1..MaxRows] : k \in 1..MaxSeries}

\* the calls on an array of the given sizes
TailCalls(sizes) ==
    {[op |-> "_array_tails", sizes |-> sizes, out_sizes |-> o, n |-> 0] :
        o \in [1..Len(sizes) -> 0..MaxRows]}
      \cup {[op |-> "_tail", sizes |-> sizes, out_sizes |-> <<>>, n |-> n] :
               n \in 1..MaxRows}

InitTail ==
    /\ \E sizes \in RaggedSizes : args \in TailCalls(sizes)
    /\ pc = "tail"
    /\ loc = <<>>
    /\ sent = <<>>
    /\ model_params = EmptyCache
    /\ attrs = NoAttrs
    /\ cfg \in PipelineConfigs
    /\ call = <<>>
    /\ series = <<>>
    /\ parts = <<>>
    /\ req = <<>>
    /\ collected = {}
    /\ results = <<>>
    /\ resp = NoResponse
    /\ error = NoExc
    /\ out = None

\* _array_tails(x, indptr, out_sizes) is called
ApplyArrayTails ==
    /\ pc = "tail"
    /\ args.op = "_array_tails"
    /\ LET t == _array_tails(RaggedRows(args.sizes), args.sizes, args.out_sizes)
       IN IF t.raised
          THEN /\ Raise(Exc("ValueError", 0, "out_sizes must be at most the original sizes."))
               /\ UNCHANGED out
          ELSE /\ out' = Some(ProcessedDF(<<>>, args.out_sizes, t.v))
               /\ pc' = "returned"
               /\ UNCHANGED error
    /\ UNCHANGED <<frontend, series, parts, resp, pipeline>>

\* _tail(proc, n) is called
ApplyTail ==
    /\ pc = "tail"
    /\ args.op = "_tail"
    /\ LET t == _tail(ProcessedDF(<<>>, args.sizes, RaggedRows(args.sizes)), args.n)
       IN IF t.raised
          THEN /\ Raise(Exc("ValueError", 0, "out_sizes must be at most the original sizes."))
               /\ UNCHANGED out
          ELSE /\ out' = Some(t.proc)
               /\ pc' = "returned"
               /\ UNCHANGED error
    /\ UNCHANGED <<frontend, series, parts, resp, pipeline>>

NextTail == ApplyArrayTails \/ ApplyTail

SpecTail == InitTail /\ [][NextTail]_vars

(* SpecOutput: the table-returning methods on complete tables of one and   *)
(* two series, asked for every list of up to MaxLevels levels or           *)
(* quantiles, unpartitioned and with one and two partitions, the online    *)
(* detection with both threshold methods.  The levels include 5 and 10,    *)
(* whose names compare as strings in the other order than as numbers; the  *)
(* quantiles include 0.28 and 0.29, which 200 * q and q * 100 do not take  *)
(* to an integer.                                                          *)
Levels == {5, 10, 80, 90}
Percents == {10, 28, 29, 50, 90}

\* the lists of 1..MaxLevels elements of S
ListsOf(S) == UNION {[1..n -> S] : n \in 1..MaxLevels}

OutputTables ==
    {CallerTable(TRUE, counts, 0, <<>>) :
        counts \in {<<Complete(MaxRows)>>, <<Complete(MaxRows), Complete(2)>>}}

OutputCalls ==
    {a \in {[DefaultCall(m, df) EXCEPT !.num_partitions = n] :
               m \in Methods \ {"finetune"}, df \in OutputTables, n \in 0..2}
             \cup {[DefaultCall(m, df) EXCEPT !.level = lv, !.num_partitions = n] :
                      m \in {"forecast", "cross_validation"}, df \in OutputTables,
                      lv \in {Some(l) : l \in ListsOf(Levels)}, n \in 0..1}
             \cup {[DefaultCall(m, df) EXCEPT !.quantiles = q, !.num_partitions = n] :
                      m \in {"forecast", "cross_validation"}, df \in OutputTables,
                      q \in {Some(l) : l \in ListsOf(Percents)}, n \in 0..1}
             \cup {[DefaultCall("detect_anomalies_online", df) EXCEPT
                       !.threshold_method = "multivariate", !.num_partitions = n] :
                      df \in OutputTables, n \in 0..2} :
        WellFormed(a)}

InitOutput == InitCall(OutputCalls)

SpecOutput == InitOutput /\ [][NextCall]_vars

(* SpecExog: the methods that send X on a table with the feature columns   *)
(* a and b in either order, with and without future values of a, with a   *)
(* or b declared historical, with and without a date feature, at a string  *)
(* and at an integer frequency.                                            *)
ExogTables ==
    {CallerTable(has_id, <<Complete(MaxRows)>>, 0, feats) :
        has_id \in BOOLEAN,
        feats \in {<<>>, <<"a">>, <<"a", "b">>, <<"b", "a">>}}

ExogCalls ==
    {a \in {[DefaultCall(m, df) EXCEPT
                !.X_df = x, !.hist_exog_list = hist, !.date_features = dates,
                !.freq = f] :
              m \in Methods \ {"finetune"}, df \in ExogTables,
              x \in {None, Some(<<"unique_id", "ds", "a">>)},
              hist \in {None, Some(<<"a">>), Some(<<"b">>)},
              dates \in {<<>>, <<"month">>},
              f \in {Daily, [type |-> "int", step |-> 1]}} :
        /\ WellFormed(a)
        /\ a.X_df.present => Contains(a.df.cols, "unique_id")}

InitExog == InitCall(ExogCalls)

SpecExog == InitExog /\ [][NextCall]_vars

(* ===================== claims on the top-level calls =================== *)
\* the requests that carry a payload to an endpoint of the engine
DataRequests == {i \in 1..Len(sent) : sent[i].verb = "POST"}

\* the target of at least one row of the caller's table is missing
MissingTarget == \E i \in 1..Len(args.df.rows) : args.df.rows[i].y = None

NaNError == Exc("ValueError", 0, "Target column cannot contain missing values")
FreqError == Exc("ValueError", 0, "Series contain missing or duplicate timestamps")

\* _run_validations has raised on the table / has returned
ValidationFailed == pc = "raised" /\ error \in {NaNError, FreqError}
ValidationPassed == pc # "run_validations" /\ ~ValidationFailed

Pairs(df) == {<<df.rows[i].unique_id, df.rows[i].ds>> : i \in 1..Len(df.rows)}

\* the table has exactly one row at each time from each series' first to
\* its last time at the frequency
CompleteRegular(df, freq) ==
    /\ Cardinality(Pairs(df)) = Len(df.rows)
    /\ \A u \in Uids(df) :
          LET first == SetMin(TimesOf(df, u))
              last == SetMax(TimesOf(df, u))
          IN TimesOf(df, u) =
                 {t \in first..last : \E k \in 0..(last - first) :
                                          t = first + k * freq.step}

\* C13 (as claimed): forecast, cross_validation, detect_anomalies and
\* finetune accept a table with missing targets: the call does not raise
\* on them, and forecast returns h rows per series.
C13_MissingTargetAccepted ==
    (/\ args.method \in {"forecast", "cross_validation", "detect_anomalies",
                         "finetune"}
     /\ MissingTarget
     /\ CompleteRegular(args.df, args.freq)) =>
        /\ ~(pc = "raised" /\ error = NaNError)
        /\ (pc = "returned" /\ args.method = "forecast") =>
              Len(out.v.data[1]) = args.h * Cardinality(Uids(loc.df))

(* ---- C14 ---- *)
\* C14 (as claimed): validation fails on the timestamps whenever the table
\* is not the complete regular grid of its series, and passes for every
\* complete regular table.
C14_GridExact ==
    ~MissingTarget =>
        /\ ValidationPassed => CompleteRegular(args.df, args.freq)
        /\ ValidationFailed => ~CompleteRegular(args.df, args.freq)

(* ---- C11 ---- *)
LevelError == Exc("ValueError", 0, "You should provide level or quantiles, but not both.")
ExogError == Exc("ValueError", 0, "exogenous features present in X_df but not in df")
ShortError == Exc("ValueError", 0, "Some series are too short.")

\* the call has raised one of the validation failures: missing target,
\* frequency mismatch, level and quantiles both given, future features
\* absent from the table, series too short
ValidationRaised ==
    pc = "raised" /\ error \in {NaNError, FreqError, LevelError, ExogError, ShortError}

\* C11 (as claimed): a validation failure is raised before the call has
\* issued any network request.
C11_ValidationBeforeNetwork == ValidationRaised => sent = <<>>

\* the shortest series of the caller's table is shorter than the model's
\* input size plus its horizon
TooShort ==
    \E u \in Uids(args.df) :
        Cardinality({i \in 1..Len(args.df.rows) : args.df.rows[i].unique_id = u})
            < args.model_input_size + args.model_horizon

\* C11 (amended): a validation failure is raised before the call has sent
\* any request that carries its payload; only the API key check and the
\* query of the model's parameters may have been sent, and the length check
\* is made once those parameters are known.  So a payload is only ever sent
\* for a table without missing target, for level or quantiles but not
\* both, and, when the method checks the length, for series long enough.
C11_ValidationBeforePayload ==
    /\ ValidationRaised =>
          /\ DataRequests = {}
          /\ \A i \in 1..Len(sent) :
                sent[i].endpoint \in {"/validate_api_key", "/model_params"}
          /\ error = ShortError => ModelKey(args) \in DOMAIN model_params
    /\ DataRequests # {} =>
          /\ ~MissingTarget
          /\ args.method \in {"forecast", "cross_validation"} =>
                ~(args.level.present /\ args.quantiles.present)
          /\ (args.method = "finetune"
                \/ (args.method = "forecast" /\ args.finetune_steps > 0)) => ~TooShort

\* the series were found too short after the API key check and the query
\* of the model's parameters had both been sent
C11_Witness ==
    /\ pc = "raised"
    /\ error = ShortError
    /\ sent = <<Request("GET", "/validate_api_key"), Request("GET", "/model_params")>>

(* ---- C17 ---- *)
\* C17 (as claimed): the table a method returns lacks the id column if and
\* only if the caller's table had none.
C17_IdDroppedIffSynthesized ==
    (pc = "returned" /\ args.method # "finetune") =>
        (~Contains(out.v.cols, Col("unique_id"))
            <=> ~Contains(args.df.cols, "unique_id"))

(* ---- C18 ---- *)
\* the last k[i] rows of each series i, in series order
LastRows(sizes, k) ==
    Flatten([i \in 1..Len(sizes) |-> [r \in 1..k[i] |-> <<i, sizes[i] - k[i] + r>>]])

\* the length k asked of every series: n for _tail; for _array_tails the
\* formulas below look at the calls whose out_sizes are all equal
AskedSizes ==
    IF args.op = "_tail" THEN [i \in 1..Len(args.sizes) |-> args.n]
    ELSE args.out_sizes

Exceeds == \E i \in 1..Len(args.sizes) : AskedSizes[i] > args.sizes[i]

\* C18 (as claimed): _array_tails and _tail return the last k rows of
\* every series when k is at most every length, and raise, returning
\* nothing, when k exceeds the length of any series.
C18_TailExactOrRaises ==
    pc # "tail" =>
        IF Exceeds THEN pc = "raised" /\ out = None
        ELSE pc = "returned" /\ out.v.rows = LastRows(args.sizes, AskedSizes)

\* C18 (amended): _array_tails returns the last out_sizes[i] rows of every
\* series i, in series order, and raises when an out_size exceeds its
\* series' length; _tail(proc, n) never raises: it returns the last
\* min(n, length) rows of every series, whole series included.
C18_TailClamps ==
    pc # "tail" =>
        IF args.op = "_array_tails"
        THEN IF Exceeds THEN pc = "raised" /\ out = None
             ELSE /\ pc = "returned"
                  /\ out.v.rows = LastRows(args.sizes, args.out_sizes)
        ELSE LET k == [i \in 1..Len(args.sizes) |-> Min(args.n, args.sizes[i])]
             IN /\ pc = "returned"
                /\ out.v.sizes = k
                /\ out.v.rows = LastRows(args.sizes, k)

\* _tail was asked for more rows than a series has and returned, a longer
\* series having been cut
C18_Witness ==
    /\ args.op = "_tail"
    /\ pc = "returned"
    /\ \E i, j \in 1..Len(args.sizes) :
          args.n > args.sizes[i] /\ args.n < args.sizes[j]

(* ---- C15 ---- *)
\* the columns of a returned table that are bounds of a level
BoundCols(df) == SelectSeq(df.cols, LAMBDA c : c.kind \in {"lo", "hi"})

\* the values of the bound `side` of level lv along the point values mean
BoundValues(side, lv, mean) == [j \in 1..Len(mean) |-> <<side, lv, mean[j]>>]

\* the column of quantile p / 100 as the mapping level = |100 - 200 q| gives it
QuantileValues(p, mean) ==
    IF p = 50 THEN mean
    ELSE IF p < 50 THEN BoundValues("lo", 100 - 2 * p, mean)
    ELSE BoundValues("hi", 2 * p - 100, mean)

\* C15 (as claimed): when quantiles are requested the returned table has,
\* for every quantile q, a column TimeGPT-q-{100 q} holding the lower bound
\* of level |100 - 200 q| when q < 0.5, the upper bound of that level when
\* q > 0.5 and the point forecast when q = 0.5, and no -lo-/-hi- column.
C15_QuantileColumns ==
    (pc = "returned" /\ args.quantiles.present) =>
        /\ \A i \in 1..Len(args.quantiles.v) :
              LET p == args.quantiles.v[i]
              IN /\ Contains(out.v.cols, QCol(p))
                 /\ Column(out.v, QCol(p)) = QuantileValues(p, resp.mean)
        /\ BoundCols(out.v) = <<>>

(* ---- C16 ---- *)
\* the interval columns in the claimed order for the levels asked: the
\* lower bounds from the highest level down, then the upper bounds up
ClaimedIntervalOrder(level) ==
    LET asc == SortedSeq(Range(level))
    IN [i \in 1..Len(asc) |-> BoundCol("lo", asc[Len(asc) + 1 - i])]
         \o [i \in 1..Len(asc) |-> BoundCol("hi", asc[i])]

\* C16 (as claimed): the interval columns of a returned table come after
\* the point forecast, the lower bounds from the highest level down to the
\* lowest, then the upper bounds from the lowest level up to the highest.
C16_IntervalColumnsOrder ==
    (/\ pc = "returned"
     /\ args.method # "finetune"
     /\ args.level.present
     /\ resp.intervals.present) =>
        /\ BoundCols(out.v) = ClaimedIntervalOrder(args.level.v)
        /\ \A i, j \in 1..Len(out.v.cols) :
              (out.v.cols[i] = Col("TimeGPT") /\ out.v.cols[j].kind \in {"lo", "hi"})
                  => i < j

(* ---- C19 ---- *)
\* the response of the one request that carries the whole payload
RawResponse == EngineTop(args.method, Payload(args, loc, series))

\* the requests of the call have been sent and none has failed
Responded ==
    /\ pc \in {"assemble", "returned", "raised"}
    /\ DataRequests # {}
    /\ error.type # "ApiError"

\* C19 (as claimed): with a single partition the response handed to the
\* output reconstruction is the raw response of the one request, every
\* field present with the same value, and the call ends as the call
\* without partitioning does.
C19_SinglePartitionRaw ==
    (args.num_partitions = 1 /\ Responded) =>
        /\ resp = RawResponse
        /\ Reconstruct(args.method, args, loc, RawResponse).raised = NoExc =>
              /\ pc # "raised"
              /\ pc = "returned" =>
                    out = Some(Reconstruct(args.method, args, loc, RawResponse).df)

(* ---- C20 ---- *)
\* the feature each row of a matrix of the payload belongs to
FeatureNames(matrix) == [r \in 1..Len(matrix) |-> matrix[r][1][1]]

\* C20 (as claimed): whenever historical features are declared, the rows
\* of X that have a row in X_future come first, in the order of the rows of
\* X_future, and the historical-only rows after them.
C20_FutureBeforeHistorical ==
    (/\ DataRequests # {}
     /\ args.hist_exog_list.present
     /\ series.X.present) =>
        LET names == FeatureNames(series.X.v)
            futr == IF series.X_future.present
                    THEN FeatureNames(series.X_future.v) ELSE <<>>
        IN /\ Len(futr) <= Len(names)
           /\ SubSeq(names, 1, Len(futr)) = futr
           /\ \A r \in (Len(futr) + 1)..Len(names) : ~Contains(futr, names[r])

(* ---- C30 ---- *)
\* the names of the quantile columns of a table
QuantileNames(df) == {df.cols[i] : i \in {j \in 1..Len(df.cols) : df.cols[j].kind = "q"}}

\* C30 (as claimed): the returned table has one TimeGPT-q column for each
\* requested quantile: two different quantiles never share a name, and
\* each quantile's column holds its own values.
C30_QuantileNamesDistinct ==
    (pc = "returned" /\ args.quantiles.present) =>
        /\ Cardinality(QuantileNames(out.v)) = Cardinality(Range(args.quantiles.v))
        /\ \A i, j \in 1..Len(args.quantiles.v) :
              args.quantiles.v[i] # args.quantiles.v[j] =>
                  QCol(IntPercent(args.quantiles.v[i]))
                      # QCol(IntPercent(args.quantiles.v[j]))

(* SpecPartition: _partition_series applied to every payload of up to      *)
(* MaxSeries + 1 series, with every n_part up to that number, every kind   *)
(* of feature rows and h = 0 (cross_validation) or h > 0 (forecast).       *)
MaxPartSeries == MaxSeries + 1

PartitionSizeLists == UNION {[1..n -> SeriesSizes] : n \in 1..MaxPartSeries}

InitPartition ==
    InitWith(PipelineConfigs, Calls(1..MaxPartSeries), PartitionSizeLists)

NextPartition == StartPartitioned

SpecPartition == InitPartition /\ [][NextPartition]_vars

(* ---- C25 ---- *)
\* C25 (as claimed): when _partition_series returns, it returns exactly
\* min(n_part, n_series) sub-payloads, each holding at least one series and
\* at most ceil(n_series / min(n_part, n_series)) series.
C25_PartitionCount ==
    pc = "dispatch" =>
        LET n_series == Len(series.sizes)
            n_part == Min(call.num_partitions, n_series)
        IN /\ Len(parts) = n_part
           /\ \A p \in 1..Len(parts) :
                 /\ Len(parts[p].sizes) >= 1
                 /\ Len(parts[p].sizes) <= CeilDiv(n_series, n_part)

(* ---- C27 ---- *)
\* C27 (as claimed): _partition_series returns without raising for every
\* payload with at least one series and every h >= 0; for a payload with
\* feature rows X but X_future = None, every sub-payload has X_future = None.
C27_PartitionNeverRaises ==
    /\ pc # "raised"
    /\ (pc = "dispatch" /\ series.X.present /\ ~series.X_future.present) =>
           \A p \in 1..Len(parts) : ~parts[p].X_future.present

(* SpecSize: one or two requests under every retry setting, on payloads    *)
(* whose serialized size is far below, exactly at and just above the       *)
(* ceiling of _make_request.                                               *)
RowSizes ==
    {8, (MAX_CONTENT_MB \div 2) * MiB, (MAX_CONTENT_MB \div 2) * MiB + 1,
     MAX_CONTENT_MB * MiB + 1}

SizeCalls ==
    {c \in CallsOfSize({0, 2}, RowSizes) :
        c.endpoint = "v2/forecast" /\ c.exog = "none" /\ c.h = 1}

InitSize == InitWith(Configs, SizeCalls, {<<1>>, <<2>>, <<1, 2>>, <<2, 2>>})

NextSize ==
    \/ StartDirect
    \/ StartPartitioned
    \/ \E p \in 1..2 : Attempt(p, PipelineTransports, 0..MaxDuration)
    \/ \E p \in 1..2 : Collect(p)
    \/ PoolExit
    \/ Merge
    \/ ReturnDirect
    \/ Assemble

SpecSize == InitSize /\ [][NextSize]_vars

(* ---- C21 ---- *)
\* the payload of request p serializes to more than 200 MiB
Oversized(p) == content_len(parts[p], call.bytes_per_row) > MAX_CONTENT_MB * MiB

\* C21: a request whose serialized payload is larger than 200 MiB sends no
\* HTTP request, and its error is not retried: it fails at its first attempt
\* with the ValueError of the size check, which is what its caller gets.
C21_OversizedNotSent ==
    \A p \in 1..Len(req) :
        Oversized(p) =>
            /\ req[p].posts = 0
            /\ req[p].attempt <= 1
            /\ req[p].status # "ok"
            /\ (req[p].status = "failed" => req[p].raised.type = "ValueError")

\* an oversized payload has failed under a client that allows retries, while
\* the other partition, within the ceiling, was posted
C21_Witness ==
    /\ Len(req) = 2
    /\ cfg.max_retries > 1
    /\ \E p, q \in 1..2 :
          /\ Oversized(p) /\ req[p].status = "failed"
          /\ ~Oversized(q) /\ req[q].posts > 0

(* ---- C26 ---- *)
\* the number of attempts of a request that have failed so far
FailedAttempts(r) ==
    IF r.status = "failed" THEN r.attempt
    ELSE IF r.attempt = 0 THEN 0 ELSE r.attempt - 1

\* C26 (as claimed): every failed attempt of a request, whether its cause is
\* retriable or not and including the last one, produces one log record with
\* the attempt number and the error.
C26_EveryFailureLogged ==
    \A p \in 1..Len(req) :
        /\ req[p].logged = FailedAttempts(req[p])
        /\ FailedAttempts(req[p]) > 0 =>
               req[p].last_log = LogRecord(FailedAttempts(req[p]), req[p].exc)

\* the request ended on a failure whose cause is not retriable
EndedNotRetriable(r) == r.status = "failed" /\ ~should_retry(r.exc)

\* C26 (amended): every failed attempt whose cause is retriable, including
\* the last one when the retries stop, produces one log record with the
\* attempt number and the error; the failure with a non-retriable cause that
\* ends a request produces none.
C26_RetriableFailuresLogged ==
    \A p \in 1..Len(req) :
        LET r == req[p]
            retriable == IF EndedNotRetriable(r) THEN r.attempt - 1
                         ELSE FailedAttempts(r)
        IN /\ r.logged = retriable
           /\ r.last_log.attempt_number = retriable
           /\ retriable > 0 => should_retry(r.last_log.error)
           /\ (retriable > 0 /\ ~EndedNotRetriable(r)) => r.last_log.error = r.exc

\* a request was retried after a logged failure, then ended on a
\* non-retriable failure that left no record
C26_Witness ==
    /\ Len(req) = 1
    /\ EndedNotRetriable(req[1])
    /\ req[1].attempt = 2
    /\ req[1].logged = 1
    /\ req[1].last_log.attempt_number = 1

(* SpecPool: a call in POOL_WORKERS + 2 partitions of one series each, so  *)
(* that the last two requests wait in the executor's queue and one of them *)
(* still waits when the first worker is free; the first request is         *)
(* answered 400, the others 200.                                           *)
PoolSeries == POOL_WORKERS + 2

PoolCalls ==
    {c \in Calls({PoolSeries}) :
        c.endpoint = "v2/cross_validation" /\ c.exog = "none" /\ c.h = 1}

PoolTransports(p) ==
    IF p = 1 THEN {Transport("", 400, TRUE)} ELSE {Transport("", HTTP_OK, TRUE)}

InitPool == InitWith(PipelineConfigs, PoolCalls, {[i \in 1..PoolSeries |-> 1]})

NextPool ==
    \/ StartPartitioned
    \/ \E p \in 1..PoolSeries : Attempt(p, PoolTransports(p), {0})
    \/ \E p \in 1..PoolSeries : Collect(p)
    \/ PoolExit

SpecPool == InitPool /\ [][NextPool]_vars

(* ---- C28 ---- *)
\* C28: when a partition's request has failed, the call raises to its caller
\* only after every submitted request has finished, and none was cancelled:
\* each of them, the ones queued behind the worker limit included, has been
\* sent.
C28_RaisesAfterAllFinished ==
    (pc = "raised" /\ Len(req) > 0) =>
        \A p \in 1..Len(req) :
            /\ req[p].status \notin Unfinished
            /\ req[p].posts >= 1

\* the failure of the first request was the first future consumed, and the
\* call has raised with the last request, queued behind the worker limit
\* when it was submitted, sent and answered
C28_Witness ==
    /\ pc = "raised"
    /\ Len(req) > POOL_WORKERS + 1
    /\ req[1].status = "failed" /\ error = req[1].raised
    /\ collected = {}
    /\ req[Len(req)].status = "ok"
    /\ req[Len(req)].posts = 1

(* ---- C29 ---- *)
\* C29: every request has its own retry budget.  Whether a request goes on
\* after a failed attempt is decided by its own attempt number and by the
\* time since its own first attempt began, whatever the other requests of
\* the client have done: it gives up on a retriable failure only when its
\* own budget is spent, and it starts another attempt only when its own
\* budget was not.
C29_OwnRetryBudget ==
    \A p \in 1..Len(req) :
        LET r == req[p]
        IN /\ r.attempt <= cfg.max_retries
           /\ (r.status = "failed" /\ should_retry(r.exc)) =>
                  stop(cfg, r.attempt, r.failedAt)
           /\ (r.status \in {"running", "ok"} /\ r.attempt > 1) =>
                  ~stop(cfg, r.attempt - 1, r.failedAt)

\* one request has spent its whole budget on retriable failures and the
\* other was answered at its own last allowed attempt: together they made
\* twice the attempts one budget allows
C29_Witness ==
    /\ Len(req) = 2
    /\ cfg.max_retries >= 2
    /\ req[1].status = "failed" /\ should_retry(req[1].exc)
    /\ req[1].attempt = cfg.max_retries
    /\ req[2].status = "ok"
    /\ req[2].attempt = cfg.max_retries

(* SpecClient: one client through any sequence of top-level calls, with    *)
(* and without an exogenous column, at two frequencies, the service        *)
(* answering the metadata query of each call with its own values.          *)
ClientTables ==
    {CallerTable(TRUE, <<Complete(MaxRows)>>, 0, feats) : feats \in {<<>>, <<"a">>}}

ClientCalls ==
    {a \in {[DefaultCall(m, df) EXCEPT
                !.freq = f, !.model_input_size = size,
                !.feature_contributions = fc] :
              m \in Methods, df \in ClientTables,
              f \in {Daily, [type |-> "int", step |-> 1]},
              size \in 1..2, fc \in BOOLEAN} :
        a.feature_contributions => a.method = "forecast"}

\* the caller makes another call on the client once a call has returned or
\* raised
StartCall(calls) ==
    /\ pc \in {"returned", "raised"}
    /\ args' \in calls
    /\ loc' = Locals(args')
    /\ sent' = <<>>
    /\ pc' = "run_validations"
    /\ error' = NoExc
    /\ out' = None
    /\ series' = <<>>
    /\ parts' = <<>>
    /\ resp' = NoResponse
    /\ UNCHANGED <<model_params, attrs, pipeline>>

InitClient == InitCall(ClientCalls) /\ model_params = EmptyCache

NextClient == NextCall \/ StartCall(ClientCalls)

SpecClient == InitClient /\ [][NextClient]_vars

(* ---- C22 ---- *)
\* C22 (as claimed): apart from the model-metadata cache, no top-level call
\* writes state on the client: whatever calls were made, the client has the
\* attributes it had when it was constructed.
C22_OnlyCacheWritten == attrs = NoAttrs

\* C22 (amended): apart from the cache, the calls write the attributes
\* weights_x and feature_contributions and nothing else.  weights_x is
\* written by forecast, detect_anomalies and detect_anomalies_online only,
\* and set by the first two only, on return; feature_contributions is
\* written by forecast only; the retry settings never change.  A forecast
\* that has returned leaves exactly its own results: weights_x if and only
\* if its response carried weights, feature_contributions if and only if
\* they were asked for and the payload had features.
C22_OnlyResultAttributesWritten ==
    [][/\ cfg' = cfg
       /\ attrs'.weights_x # attrs.weights_x =>
             /\ args.method \in {"forecast", "detect_anomalies",
                                 "detect_anomalies_online"}
             /\ attrs'.weights_x.present =>
                   /\ args.method # "detect_anomalies_online"
                   /\ pc' = "returned"
       /\ attrs'.feature_contributions # attrs.feature_contributions =>
             args.method = "forecast"
       /\ (pc = "returned" /\ args.method = "forecast") =>
             /\ attrs.weights_x.present = resp.weights_x.present
             /\ attrs.feature_contributions.present
                    = (args.feature_contributions /\ series.X.present)]_vars

\* a cross validation has returned on a client that still holds the
\* weights an earlier call left
C22_Witness ==
    /\ pc = "returned"
    /\ args.method = "cross_validation"
    /\ attrs.weights_x.present

(* SpecLookup: two threads look the same key up on one client whose cache  *)
(* does not hold it, each running _get_model_params statement by           *)
(* statement: the membership test, the query, the store, the return.  The  *)
(* service answers the query of thread t with answers[t], or the query     *)
(* fails.  A thread whose lookup has returned may look the key up again.   *)
Threads == 1..2

ParamValues == {<<1, 1>>, <<2, 1>>, <<1, 2>>}

LookupCalls ==
    [freq : {Daily, [type |-> "int", step |-> 1]},
     answers : [Threads -> ParamValues]]

\* a thread entering _get_model_params
NewLookup == [at |-> "check", params |-> <<0, 0>>, ret |-> None]

InitLookup ==
    /\ args \in LookupCalls
    /\ loc = [t \in Threads |-> NewLookup]
    /\ sent = <<>>
    /\ model_params = EmptyCache
    /\ attrs = NoAttrs
    /\ pc = "lookup"
    /\ cfg \in PipelineConfigs
    /\ call = <<>>
    /\ series = <<>>
    /\ parts = <<>>
    /\ req = <<>>
    /\ collected = {}
    /\ results = <<>>
    /\ resp = NoResponse
    /\ error = NoExc
    /\ out = None

\* what a lookup step leaves alone
LookupFrame == <<args, attrs, pc, series, parts, resp, out, error, pipeline>>

\* `if key not in self._model_params:`
LookupCheck(t) ==
    /\ loc[t].at = "check"
    /\ loc' = [loc EXCEPT ![t].at = IF key_cached(model_params, ModelKey(args))
                                    THEN "return" ELSE "fetch"]
    /\ UNCHANGED <<sent, model_params, LookupFrame>>

\* the query of the metadata: answered, or failed
LookupFetch(t) ==
    /\ loc[t].at = "fetch"
    /\ sent' = Append(sent, Request("GET", "/model_params"))
    /\ \/ loc' = [loc EXCEPT ![t].at = "store", ![t].params = args.answers[t]]
       \/ loc' = [loc EXCEPT ![t].at = "raised"]
    /\ UNCHANGED <<model_params, LookupFrame>>

\* `self._model_params[key] = (params["input_size"], params["horizon"])`
LookupStore(t) ==
    /\ loc[t].at = "store"
    /\ model_params' = cache_store(model_params, ModelKey(args), loc[t].params)
    /\ loc' = [loc EXCEPT ![t].at = "return"]
    /\ UNCHANGED <<sent, LookupFrame>>

\* `return self._model_params[key]`
LookupReturn(t) ==
    /\ loc[t].at = "return"
    /\ loc' = [loc EXCEPT ![t].at = "done",
                          ![t].ret = Some(model_params[ModelKey(args)])]
    /\ UNCHANGED <<sent, model_params, LookupFrame>>

\* the thread's next call looks the key up again
LookupAgain(t) ==
    /\ loc[t].at = "done"
    /\ loc' = [loc EXCEPT ![t] = NewLookup]
    /\ UNCHANGED <<sent, model_params, LookupFrame>>

NextLookup ==
    \E t \in Threads :
        \/ LookupCheck(t)
        \/ LookupFetch(t)
        \/ LookupStore(t)
        \/ LookupReturn(t)
        \/ LookupAgain(t)

SpecLookup == InitLookup /\ [][NextLookup]_vars

(* ---- C24 ---- *)
\* C24: when two first-time lookups of one key interleave and the service
\* answers both queries with the same metadata, then once both lookups have
\* finished the cache holds one value for the key, the metadata the service
\* answered, and both lookups have returned it; either both have queried
\* the service or one of them found the other's entry.
C24_LookupsConverge ==
    ((\A t \in Threads : loc[t].at = "done")
        /\ args.answers[1] = args.answers[2]) =>
        /\ DOMAIN model_params = {ModelKey(args)}
        /\ \A t \in Threads :
              /\ loc[t].ret = Some(model_params[ModelKey(args)])
              /\ loc[t].ret = Some(args.answers[t])
        /\ Len(sent) \in 1..2

\* both lookups missed the cache, both queried the service, and both have
\* returned the same pair
C24_Witness ==
    /\ \A t \in Threads : loc[t].at = "done"
    /\ args.answers[1] = args.answers[2]
    /\ Len(sent) = 2
    /\ loc[1].ret = loc[2].ret
    /\ loc[1].ret = Some(model_params[ModelKey(args)])

(* ---- C23 ---- *)
\* C23 (as claimed): once a key is cached, its entry is never evicted,
\* invalidated or replaced by a different value.
C23_EntryNeverReplaced ==
    [][\A k \in DOMAIN model_params :
          k \in DOMAIN model_params' /\ model_params'[k] = model_params[k]]_vars

\* C23 (amended): once a key is cached its entry is never evicted or
\* invalidated, and a lookup that finds it sends no request and returns the
\* pair the cache holds.  The entry is replaced only by the store of a
\* lookup that had missed the cache before the entry was stored (a
\* concurrent first-time lookup), with the metadata the service answered
\* that lookup: by a different value only if the service answered the two
\* queries differently.
C23_EntryKeptOrRestored ==
    [][/\ \A k \in DOMAIN model_params :
             /\ k \in DOMAIN model_params'
             /\ model_params'[k] # model_params[k] =>
                   /\ args.answers[1] # args.answers[2]
                   /\ \E t \in Threads :
                         /\ loc[t].at = "store" /\ loc'[t].at = "return"
                         /\ model_params'[k] = args.answers[t]
       /\ \A t \in Threads :
             /\ (loc[t].at = "check" /\ loc'[t] # loc[t]
                    /\ ModelKey(args) \in DOMAIN model_params) =>
                   loc'[t].at = "return" /\ sent' = sent
             /\ (loc[t].at = "return" /\ loc'[t] # loc[t]) =>
                   /\ loc'[t].ret = Some(model_params[ModelKey(args)])
                   /\ sent' = sent]_vars

\* the second thread found the entry the first had stored: it has returned
\* the cached pair, not what its own query would have been answered, and
\* one request was sent in all
C23_Witness ==
    /\ \A t \in Threads : loc[t].at = "done"
    /\ Len(sent) = 1
    /\ args.answers[2] # args.answers[1]
    /\ loc[2].ret = Some(args.answers[1])
    /\ model_params[ModelKey(args)] = args.answers[1]

====
